---- MODULE Spec2Model ----
(***************************************************************************)
(* Mine Land server (ECS architecture): world store, player registry,      *)
(* session manager, rate limiter, action pipeline, game rules and viewport *)
(* materializer, modelled as a state machine.                              *)
(***************************************************************************)
EXTENDS Integers, Naturals, Sequences, FiniteSets, TLC

(***************************************************************************)
(* Bounds of the model.                                                    *)
(***************************************************************************)
WORLD_SIZE == 4          \* side of the square world (1000 in the server)
MaxSteps == 4            \* handled events per run of the server specifications
MaxCalls == 7            \* calls per run of the component specifications
MaxChainSteps == 5       \* handled events per run of the explosion specification
MaxViewSteps == 3        \* handled events per run of the viewport specification

(***************************************************************************)
(* Program constants.                                                      *)
(***************************************************************************)
DefaultFlags == 10           \* createPlayerComponent: data.flags || 10
ExplosionRadius == 2         \* GameLogicSystem.handleExplosion: explosionRadius
DocumentedRadius == 3        \* legacy handleExplosion: "3-tile radius explosion"
MineFlagBonus == 3           \* handleTileFlag: playerComp.score += 3
NearSpawnDistance == 2       \* isNearSpawnPoint: distance <= 2
SESSION_DURATION == 86400000 \* SessionManager: 24 * 60 * 60 * 1000
WindowMs == 1000             \* RateLimiter: windowMs of every default limit
MaxMove == 10                \* RateLimiter: move maxActions
MaxFlip == 5                 \* RateLimiter: flip maxActions
MaxFlag == 5                 \* RateLimiter: flag maxActions
MaxUnflag == 5               \* RateLimiter: unflag maxActions
MaxGeneral == 20             \* RateLimiter: general maxActions
CleanupMaxAge == 300000      \* RateLimiter.cleanup: maxAge
SessionTimeout == 30000      \* index_ecs session sweep: TIMEOUT
ViewportCap == 100           \* getViewportForPlayer: Math.min(viewportWidth, 100)
DefaultTilesX == 50          \* getViewportForPlayer: defaultTilesX
DefaultTilesY == 40          \* getViewportForPlayer: defaultTilesY
SweepPeriod == 10000         \* index_ecs session sweep: setInterval period
HashBucketMs == 1000         \* generateActionHash: Math.floor(timestamp / 1000)
ReplayWindowMs == 100        \* isReplayAction: timeDiff < 100
DuplicateWindowMs == 1000    \* isDuplicateAction: timeWindow = 1000
SequenceWindowMs == 5000     \* validateActionSequence: last 5 seconds
SequenceMaxActions == 10     \* validateActionSequence: length >= 10
SequenceSpanMs == 1000       \* validateActionSequence: timeSpan < 1000
SpamLength == 6              \* validateActionSequence: length >= 6

(***************************************************************************)
(* Configuration the server starts the GameManager with.                   *)
(***************************************************************************)
enableRateLimiting == TRUE
enableBehaviorValidation == TRUE
enableSessionSecurity == TRUE
enableReplayProtection == FALSE

SecurityConfig(rate, behavior, session, replay) ==
    [enableRateLimiting |-> rate, enableBehaviorValidation |-> behavior,
     enableSessionSecurity |-> session, enableReplayProtection |-> replay]

\* the configuration index_ecs passes to the GameManager
ServerConfig ==
    SecurityConfig(enableRateLimiting, enableBehaviorValidation,
                   enableSessionSecurity, enableReplayProtection)

\* the configuration a GameManager built without one falls back on
DefaultConfig == SecurityConfig(TRUE, TRUE, TRUE, TRUE)

\* the configuration of the replay test: session security and replay
\* protection only
ReplayOnlyConfig == SecurityConfig(FALSE, FALSE, TRUE, TRUE)

Configs == {ServerConfig, DefaultConfig, ReplayOnlyConfig}

(***************************************************************************)
(* Input alphabets.                                                        *)
(***************************************************************************)
Clients == {"c1", "c2"}
PlayerIds == {1, 2}
SessionIds == {1, 2}
ActionKinds == {"move", "flip", "flag", "unflag"}
TileKinds == {"flip", "flag", "unflag"}
Offsets == {<<1, 0>>, <<1, 1>>, <<-1, 0>>, <<2, 0>>, <<0, 0>>}
NoId == 0

Abs(n) == IF n < 0 THEN -n ELSE n
Max2(a, b) == IF a >= b THEN a ELSE b
Min2(a, b) == IF a <= b THEN a ELSE b

Coord == 0 .. (WORLD_SIZE - 1)
Pos == Coord \X Coord

Chebyshev(x1, y1, x2, y2) == Max2(Abs(x1 - x2), Abs(y1 - y2))
Manhattan(x1, y1, x2, y2) == Abs(x1 - x2) + Abs(y1 - y2)
SqDist(x1, y1, x2, y2) == (x1 - x2) * (x1 - x2) + (y1 - y2) * (y1 - y2)

(***************************************************************************)
(* World generation (GameManager.generateWorld).  The random choices of    *)
(* the generator are a layout: the spawn points, the mines, the tokens.    *)
(***************************************************************************)
SpawnPoints == {<<0, 0>>, <<0, 2>>}
MineLayout == {<<2, 1>>, <<3, 1>>}
TokenLayout == {<<1, 0>>}

\* variant of isNearSpawnPoint that keeps mines off the tiles next to a spawn
\* point only
isNearSpawnPointAdjacent(x, y) ==
    \E s \in SpawnPoints : Manhattan(x, y, s[1], s[2]) <= 1

isNearSpawnPoint(x, y) ==
    \E s \in SpawnPoints : Manhattan(x, y, s[1], s[2]) <= NearSpawnDistance

\* variant of countAdjacentMines that looks at the four orthogonal neighbours
countAdjacentMinesOrthogonal(mines, cx, cy) ==
    Cardinality({m \in mines : Manhattan(cx, cy, m[1], m[2]) = 1})

countAdjacentMines(mines, cx, cy) ==
    Cardinality({m \in mines :
        /\ Chebyshev(cx, cy, m[1], m[2]) = 1
        /\ m[1] >= 0 /\ m[1] < WORLD_SIZE /\ m[2] >= 0 /\ m[2] < WORLD_SIZE})

createTileComponent(type, revealed, number) ==
    [type |-> type, revealed |-> revealed, flagged |-> FALSE,
     flaggedBy |-> NoId, number |-> number, exploded |-> FALSE]

generateWorld(mines, tokens) ==
    [p \in Pos |->
        IF p \in SpawnPoints THEN createTileComponent("empty", TRUE, 0)
        ELSE IF p \in mines THEN createTileComponent("mine", FALSE, 0)
        ELSE IF p \in tokens THEN createTileComponent("flag_token", FALSE, 0)
        ELSE IF countAdjacentMines(mines, p[1], p[2]) > 0
             THEN createTileComponent("numbered", FALSE,
                                      countAdjacentMines(mines, p[1], p[2]))
        ELSE createTileComponent("empty", FALSE, 0)]

\* the generator step by step: the registry while it is being filled
MINE_COUNT == Cardinality(MineLayout)
FLAG_TOKEN_COUNT == Cardinality(TokenLayout)

NoTile == createTileComponent("none", FALSE, 0)

hasTile(tileMap, x, y) == tileMap[<<x, y>>].type # "none"

createTileEntity(tileMap, x, y, type, revealed, number) ==
    [tileMap EXCEPT ![<<x, y>>] = createTileComponent(type, revealed, number)]

\* generateWorld, first loop: the spawn tiles, revealed
spawnTiles ==
    [p \in Pos |-> IF p \in SpawnPoints THEN createTileComponent("empty", TRUE, 0)
                   ELSE NoTile]

minesPlaced(tileMap) == Cardinality({p \in Pos : tileMap[p].type = "mine"})
flagTokensPlaced(tileMap) == Cardinality({p \in Pos : tileMap[p].type = "flag_token"})

\* one turn of the mine loop with the drawn position (x, y)
placeMine(tileMap, x, y) ==
    IF <<x, y>> \notin SpawnPoints /\ ~isNearSpawnPoint(x, y) /\ ~hasTile(tileMap, x, y)
    THEN createTileEntity(tileMap, x, y, "mine", FALSE, 0)
    ELSE tileMap

\* one turn of the flag token loop with the drawn position (x, y)
placeFlagToken(tileMap, x, y) ==
    IF <<x, y>> \notin SpawnPoints /\ ~hasTile(tileMap, x, y)
    THEN createTileEntity(tileMap, x, y, "flag_token", FALSE, 0)
    ELSE tileMap

\* every position without a tile gets a numbered tile if it has mines
\* around it and an empty tile if not
calculateNumbers(tileMap) ==
    LET mines == {p \in Pos : tileMap[p].type = "mine"}
    IN  [p \in Pos |->
            IF hasTile(tileMap, p[1], p[2]) \/ p \in SpawnPoints THEN tileMap[p]
            ELSE IF countAdjacentMines(mines, p[1], p[2]) > 0
                 THEN createTileComponent("numbered", FALSE,
                                          countAdjacentMines(mines, p[1], p[2]))
            ELSE createTileComponent("empty", FALSE, 0)]

LayoutValid ==
    /\ SpawnPoints \subseteq Pos /\ MineLayout \subseteq Pos /\ TokenLayout \subseteq Pos
    /\ \A m \in MineLayout : m \notin SpawnPoints /\ ~isNearSpawnPoint(m[1], m[2])
    /\ \A t \in TokenLayout : t \notin SpawnPoints /\ t \notin MineLayout

(***************************************************************************)
(* Components.                                                             *)
(***************************************************************************)
NoPlayer ==
    [exists |-> FALSE, x |-> 0, y |-> 0, score |-> 0, flags |-> 0,
     alive |-> FALSE, connected |-> FALSE, clientId |-> "none"]

createPlayerComponent(spawn, clientId) ==
    [exists |-> TRUE, x |-> spawn[1], y |-> spawn[2], score |-> 0,
     flags |-> DefaultFlags, alive |-> TRUE, connected |-> TRUE,
     clientId |-> clientId]

(***************************************************************************)
(* GameLogicSystem.  A game state g is [tiles, players, flaggedMines].     *)
(***************************************************************************)
isValidPosition(x, y) == x >= 0 /\ x < WORLD_SIZE /\ y >= 0 /\ y < WORLD_SIZE

\* variant of isAdjacent that also takes the player's own tile
isAdjacentOrSelf(x1, y1, x2, y2) ==
    /\ Abs(x1 - x2) <= 1
    /\ Abs(y1 - y2) <= 1

isAdjacent(x1, y1, x2, y2) ==
    /\ Abs(x1 - x2) <= 1
    /\ Abs(y1 - y2) <= 1
    /\ ~(Abs(x1 - x2) = 0 /\ Abs(y1 - y2) = 0)

\* distance = sqrt(dx*dx + dy*dy); the tile is skipped when distance > radius
inExplosionArea(cx, cy, x, y) ==
    /\ Abs(x - cx) <= ExplosionRadius
    /\ Abs(y - cy) <= ExplosionRadius
    /\ ~(SqDist(cx, cy, x, y) > ExplosionRadius * ExplosionRadius)

getAlivePlayers(players) == {q \in PlayerIds : players[q].exists /\ players[q].alive}

handleExplosion(g, x, y, playerId) ==
    LET killedFirst == [g.players EXCEPT ![playerId].alive = FALSE]
        area == {p \in Pos : inExplosionArea(x, y, p[1], p[2])}
        newTiles == [p \in Pos |->
            IF p \in area
            THEN [g.tiles[p] EXCEPT
                    !.type = IF p = <<x, y>> THEN @ ELSE "explosion",
                    !.revealed = TRUE,
                    !.exploded = TRUE]
            ELSE g.tiles[p]]
        newPlayers == [q \in PlayerIds |->
            IF /\ q \in getAlivePlayers(killedFirst)
               /\ <<killedFirst[q].x, killedFirst[q].y>> \in area
            THEN [killedFirst[q] EXCEPT !.alive = FALSE]
            ELSE killedFirst[q]]
    IN [g EXCEPT !.tiles = newTiles, !.players = newPlayers]

\* variant of handleTileFlip that also flips a tile that is revealed
handleTileFlipAgain(g, playerId, x, y) ==
    LET t == g.tiles[<<x, y>>]
        shown == [g EXCEPT !.tiles[<<x, y>>].revealed = TRUE]
    IN  IF t.flagged THEN g
        ELSE IF ~g.players[playerId].exists THEN g
        ELSE IF t.type = "mine" THEN handleExplosion(shown, x, y, playerId)
        ELSE IF t.type = "flag_token"
             THEN [shown EXCEPT !.players[playerId].flags = @ + 1,
                                !.players[playerId].score = (@ + 1) + 1]
        ELSE [shown EXCEPT !.players[playerId].score = @ + 1]

handleTileFlip(g, playerId, x, y) ==
    LET t == g.tiles[<<x, y>>]
        shown == [g EXCEPT !.tiles[<<x, y>>].revealed = TRUE]
    IN  IF t.revealed \/ t.flagged THEN g
        ELSE IF ~g.players[playerId].exists THEN g
        ELSE IF t.type = "mine" THEN handleExplosion(shown, x, y, playerId)
        ELSE IF t.type = "flag_token"
             THEN [shown EXCEPT !.players[playerId].flags = @ + 1,
                                !.players[playerId].score = (@ + 1) + 1]
        ELSE [shown EXCEPT !.players[playerId].score = @ + 1]

\* variant of handleTileFlag that places the flag without the mine bonus
handleTileFlagNoBonus(g, playerId, x, y) ==
    LET t == g.tiles[<<x, y>>]
    IN  IF t.revealed \/ t.flagged THEN g
        ELSE IF ~g.players[playerId].exists THEN g
        ELSE IF g.players[playerId].flags <= 0 THEN g
        ELSE [g EXCEPT
                !.tiles[<<x, y>>].flagged = TRUE,
                !.tiles[<<x, y>>].flaggedBy = playerId,
                !.players[playerId].flags = @ - 1]

\* variant of handleTileFlag that counts every flag as a flagged mine
handleTileFlagCountingAll(g, playerId, x, y) ==
    LET t == g.tiles[<<x, y>>]
    IN  IF t.revealed \/ t.flagged THEN g
        ELSE IF ~g.players[playerId].exists THEN g
        ELSE IF g.players[playerId].flags <= 0 THEN g
        ELSE [g EXCEPT
                !.tiles[<<x, y>>].flagged = TRUE,
                !.tiles[<<x, y>>].flaggedBy = playerId,
                !.players[playerId].flags = @ - 1,
                !.players[playerId].score =
                    IF t.type = "mine" THEN @ + MineFlagBonus ELSE @,
                !.flaggedMines = @ + 1]

handleTileFlag(g, playerId, x, y) ==
    LET t == g.tiles[<<x, y>>]
    IN  IF t.revealed \/ t.flagged THEN g
        ELSE IF ~g.players[playerId].exists THEN g
        ELSE IF g.players[playerId].flags <= 0 THEN g
        ELSE [g EXCEPT
                !.tiles[<<x, y>>].flagged = TRUE,
                !.tiles[<<x, y>>].flaggedBy = playerId,
                !.players[playerId].flags = @ - 1,
                !.players[playerId].score =
                    IF t.type = "mine" THEN @ + MineFlagBonus ELSE @,
                !.flaggedMines = IF t.type = "mine" THEN @ + 1 ELSE @]

\* variant of handleTileUnflag that takes the flag off the tile
handleTileUnflagRemoving(g, playerId, x, y) ==
    IF g.tiles[<<x, y>>].flagged
    THEN [g EXCEPT !.tiles[<<x, y>>].flagged = FALSE,
                   !.tiles[<<x, y>>].flaggedBy = NoId]
    ELSE g

handleTileUnflag(g, playerId, x, y) == g

processTileAction(g, playerId, x, y, action) ==
    CASE action = "flip" -> handleTileFlip(g, playerId, x, y)
      [] action = "flag" -> handleTileFlag(g, playerId, x, y)
      [] action = "unflag" -> handleTileUnflag(g, playerId, x, y)
      [] OTHER -> g

Result(ok, g) == [ok |-> ok, g |-> g]

\* variant of requestTileAction without the check of the flag inventory
logicRequestTileActionAnyFlags(g, playerId, x, y, action) ==
    LET p == g.players[playerId]
    IN  IF ~p.exists THEN Result(FALSE, g)
        ELSE IF ~isValidPosition(x, y) THEN Result(FALSE, g)
        ELSE IF ~isAdjacent(p.x, p.y, x, y) THEN Result(FALSE, g)
        ELSE IF ~p.alive THEN Result(FALSE, g)
        ELSE Result(TRUE, processTileAction(g, playerId, x, y, action))

\* GameLogicSystem.requestTileAction
logicRequestTileAction(g, playerId, x, y, action) ==
    LET p == g.players[playerId]
    IN  IF ~p.exists THEN Result(FALSE, g)
        ELSE IF ~isValidPosition(x, y) THEN Result(FALSE, g)
        ELSE IF ~isAdjacent(p.x, p.y, x, y) THEN Result(FALSE, g)
        ELSE IF ~p.alive THEN Result(FALSE, g)
        ELSE IF action = "flag" /\ p.flags <= 0 THEN Result(FALSE, g)
        ELSE Result(TRUE, processTileAction(g, playerId, x, y, action))

(***************************************************************************)
(* MovementSystem.                                                         *)
(***************************************************************************)
\* variant of the movement adjacency that also takes diagonal steps
isAdjacentMoveDiagonal(x1, y1, x2, y2) ==
    /\ Abs(x1 - x2) <= 1
    /\ Abs(y1 - y2) <= 1
    /\ ~(Abs(x1 - x2) = 0 /\ Abs(y1 - y2) = 0)

isAdjacentMove(x1, y1, x2, y2) ==
    \/ (Abs(x1 - x2) = 1 /\ Abs(y1 - y2) = 0)
    \/ (Abs(x1 - x2) = 0 /\ Abs(y1 - y2) = 1)

\* variant of isTileWalkable that takes any tile of the world
isTileWalkableAny(tiles, x, y) == isValidPosition(x, y)

isTileWalkable(tiles, x, y) ==
    IF ~isValidPosition(x, y) THEN FALSE
    ELSE IF ~tiles[<<x, y>>].revealed /\ ~tiles[<<x, y>>].flagged THEN FALSE
    ELSE IF tiles[<<x, y>>].revealed /\ tiles[<<x, y>>].type = "mine" THEN FALSE
    ELSE TRUE

processMovement(g, playerId, x, y) ==
    [g EXCEPT !.players[playerId].x = x, !.players[playerId].y = y]

\* variant of requestMovement that moves the player before it looks at the
\* target tile
requestMovementMovingFirst(g, playerId, x, y) ==
    LET p == g.players[playerId]
    IN  IF ~p.exists THEN Result(FALSE, g)
        ELSE IF ~isValidPosition(x, y) THEN Result(FALSE, g)
        ELSE IF ~isAdjacentMove(p.x, p.y, x, y) THEN Result(FALSE, g)
        ELSE IF ~isTileWalkable(g.tiles, x, y)
             THEN Result(FALSE, processMovement(g, playerId, x, y))
        ELSE IF ~p.alive THEN Result(FALSE, g)
        ELSE Result(TRUE, processMovement(g, playerId, x, y))

requestMovement(g, playerId, x, y) ==
    LET p == g.players[playerId]
    IN  IF ~p.exists THEN Result(FALSE, g)
        ELSE IF ~isValidPosition(x, y) THEN Result(FALSE, g)
        ELSE IF ~isAdjacentMove(p.x, p.y, x, y) THEN Result(FALSE, g)
        ELSE IF ~isTileWalkable(g.tiles, x, y) THEN Result(FALSE, g)
        ELSE IF ~p.alive THEN Result(FALSE, g)
        ELSE Result(TRUE, processMovement(g, playerId, x, y))

(***************************************************************************)
(* SessionManager.  A token is the HMAC of (sessionId, playerId, username, *)
(* createdAt) under the server's secret: it is modelled as that tuple, so  *)
(* two tokens are equal exactly when their payloads are.  The username is  *)
(* fixed per player and left out of the tuple.                             *)
(***************************************************************************)
NoToken == <<>>
ForgedToken == <<0, 0, 0>>
NoSession ==
    [present |-> FALSE, token |-> NoToken, playerId |-> NoId, createdAt |-> 0,
     lastActivity |-> 0, expiresAt |-> 0]

generateSecureToken(sessionId, data) == <<sessionId, data.playerId, data.createdAt>>

\* variant of constantTimeCompare that stops after the length test
constantTimeCompareLengthOnly(a, b) == Len(a) = Len(b)

constantTimeCompare(a, b) ==
    IF Len(a) # Len(b) THEN FALSE
    ELSE \A i \in 1 .. Len(a) : a[i] = b[i]

createSession(sessions, sessionId, playerId, now) ==
    LET data == [playerId |-> playerId, createdAt |-> now]
    IN [sessions EXCEPT ![sessionId] =
            [present |-> TRUE, token |-> generateSecureToken(sessionId, data),
             playerId |-> playerId, createdAt |-> now, lastActivity |-> now,
             expiresAt |-> now + SESSION_DURATION]]

\* result: data (present = FALSE stands for null) and the sessions afterwards
validateSession(sessions, sessionId, token, now) ==
    IF sessionId \notin SessionIds \/ ~sessions[sessionId].present
    THEN [data |-> NoSession, sessions |-> sessions]
    ELSE IF now > sessions[sessionId].expiresAt
    THEN [data |-> NoSession,
          sessions |-> [sessions EXCEPT ![sessionId] = NoSession]]
    ELSE IF ~constantTimeCompare(token,
                generateSecureToken(sessionId, sessions[sessionId]))
    THEN [data |-> NoSession, sessions |-> sessions]
    ELSE [data |-> [sessions[sessionId] EXCEPT !.lastActivity = now],
          sessions |-> [sessions EXCEPT ![sessionId].lastActivity = now]]

refreshSession(sessions, sessionId, now) ==
    IF sessionId \notin SessionIds \/ ~sessions[sessionId].present THEN sessions
    ELSE IF now > sessions[sessionId].expiresAt
    THEN [sessions EXCEPT ![sessionId] = NoSession]
    ELSE [sessions EXCEPT ![sessionId].expiresAt = now + SESSION_DURATION,
                          ![sessionId].lastActivity = now]

invalidateSession(sessions, sessionId) ==
    IF sessionId \in SessionIds
    THEN [sessions EXCEPT ![sessionId] = NoSession]
    ELSE sessions

\* variant of invalidatePlayerSessions that removes nothing
invalidatePlayerSessionsNone(sessions, playerId) == sessions

invalidatePlayerSessions(sessions, playerId) ==
    [s \in SessionIds |->
        IF sessions[s].present /\ sessions[s].playerId = playerId
        THEN NoSession ELSE sessions[s]]

cleanupExpiredSessions(sessions, now) ==
    [s \in SessionIds |->
        IF sessions[s].present /\ sessions[s].expiresAt <= now
        THEN NoSession ELSE sessions[s]]

(***************************************************************************)
(* RateLimiter.  A player's history is a sequence of action records; a     *)
(* player without an entry has the empty history.                          *)
(***************************************************************************)
maxActions(actionType) ==
    CASE actionType = "move" -> MaxMove
      [] actionType = "flip" -> MaxFlip
      [] actionType = "flag" -> MaxFlag
      [] actionType = "unflag" -> MaxUnflag
      [] OTHER -> MaxGeneral

\* result: whether the limit admits, and the history afterwards
checkLimit(history, actionType, max, now) ==
    LET windowStart == now - WindowMs
        isRecent(r) == /\ r.timestamp >= windowStart
                       /\ (actionType = "any" \/ r.action = actionType)
        recentActions == SelectSeq(history, isRecent)
        inWindow(r) == r.timestamp >= windowStart
        \* history.splice(0, history.length) empties the array; the filter
        \* that follows reads the array after it was emptied
        spliced == SubSeq(history, 1, 0)
        updated == IF actionType = "any"
                   THEN spliced \o SelectSeq(spliced, inWindow)
                   ELSE history
    IN [ok |-> Len(recentActions) < max, history |-> updated]

isAllowed(history, actionType, now) ==
    LET specific == checkLimit(history, actionType, maxActions(actionType), now)
        general == checkLimit(specific.history, "any", MaxGeneral, now)
    IN  IF actionType \in ActionKinds /\ ~specific.ok
        THEN [ok |-> FALSE, history |-> specific.history]
        ELSE IF ~general.ok
        THEN [ok |-> FALSE, history |-> general.history]
        ELSE [ok |-> TRUE,
              history |-> Append(general.history,
                                 [timestamp |-> now, action |-> actionType])]

cleanup(histories, now) ==
    [p \in PlayerIds |->
        LET fresh(r) == now - r.timestamp < CleanupMaxAge
        IN SelectSeq(histories[p], fresh)]

(***************************************************************************)
(* ReplayProtection.  actionHistory is a map from hash to signature, kept  *)
(* here as the sequence of its signatures in insertion order.  The hash of *)
(* a signature covers the player, the kind, the data and the second in     *)
(* which it was recorded (bucket); the timestamp is a field beside it.     *)
(***************************************************************************)
generateActionHash(playerId, actionType, x, y, timestamp) ==
    [playerId |-> playerId, actionType |-> actionType, x |-> x, y |-> y,
     bucket |-> timestamp \div HashBucketMs]

hashOf(signature) ==
    [playerId |-> signature.playerId, actionType |-> signature.actionType,
     x |-> signature.x, y |-> signature.y, bucket |-> signature.bucket]

\* checkForReplay looks the action up and records nothing
checkForReplay(history, playerId, actionType, x, y, now) ==
    LET hash == generateActionHash(playerId, actionType, x, y, now)
        hits == {i \in 1 .. Len(history) : hashOf(history[i]) = hash}
    IN  [isReplay |-> \E i \in hits : now - history[i].timestamp < ReplayWindowMs,
         history |-> history]

\* result: whether the action is a replay, and the history afterwards
isReplayAction(history, playerId, actionType, x, y, now) ==
    LET hash == generateActionHash(playerId, actionType, x, y, now)
        hits == {i \in 1 .. Len(history) : hashOf(history[i]) = hash}
        e == CHOOSE i \in hits : TRUE
    IN  IF hits # {}
        THEN IF now - history[e].timestamp < ReplayWindowMs
             THEN [isReplay |-> TRUE, history |-> history]
             ELSE [isReplay |-> FALSE,
                   history |-> [history EXCEPT ![e].timestamp = now]]
        ELSE [isReplay |-> FALSE,
              history |-> Append(history,
                  [playerId |-> playerId, actionType |-> actionType,
                   x |-> x, y |-> y, bucket |-> hash.bucket, timestamp |-> now])]

isDuplicateAction(history, playerId, actionType, x, y, now) ==
    \E i \in 1 .. Len(history) :
        /\ history[i].playerId = playerId
        /\ history[i].actionType = actionType
        /\ now - history[i].timestamp < DuplicateWindowMs
        /\ history[i].x = x
        /\ history[i].y = y

\* Array.prototype.sort by timestamp: stable, so ties keep insertion order
RECURSIVE sortByTimestamp(_)
sortByTimestamp(seq) ==
    IF Len(seq) <= 1 THEN seq
    ELSE LET head == sortByTimestamp(SubSeq(seq, 1, Len(seq) - 1))
             x == seq[Len(seq)]
             before(r) == r.timestamp <= x.timestamp
             after(r) == r.timestamp > x.timestamp
         IN SelectSeq(head, before) \o <<x>> \o SelectSeq(head, after)

validateActionSequence(history, playerId, actionType, now) ==
    LET mine(r) == r.playerId = playerId /\ now - r.timestamp < SequenceWindowMs
        playerActions == sortByTimestamp(SelectSeq(history, mine))
        n == Len(playerActions)
        tooMany == /\ n >= SequenceMaxActions
                   /\ playerActions[n].timestamp - playerActions[1].timestamp
                          < SequenceSpanMs
        lastSix == SubSeq(playerActions, n - SpamLength + 1, n)
        spam == /\ n >= SpamLength
                /\ \A i \in 2 .. SpamLength :
                      \/ /\ lastSix[i].actionType = "flag"
                         /\ lastSix[i - 1].actionType = "unflag"
                      \/ /\ lastSix[i].actionType = "unflag"
                         /\ lastSix[i - 1].actionType = "flag"
    IN  IF tooMany THEN [isValid |-> FALSE, reason |-> "Too many actions in short timespan"]
        ELSE IF spam THEN [isValid |-> FALSE, reason |-> "Detected flag/unflag spam pattern"]
        ELSE [isValid |-> TRUE, reason |-> "none"]

(***************************************************************************)
(* SecurityManager.  A security state sec is [sessions, histories, banned, *)
(* config, actionHistory].                                                 *)
(***************************************************************************)
Verdict(allowed, reason, shouldDisconnect, sec) ==
    [allowed |-> allowed, reason |-> reason,
     shouldDisconnect |-> shouldDisconnect, sec |-> sec]

Rejected(reason, shouldDisconnect, sec) == Verdict(FALSE, reason, shouldDisconnect, sec)

\* variant of validatePlayerAction that consults the rate limiter first, before
\* the ban set, the aliveness and the session
validatePlayerActionRateFirst(sec, playerId, sessionId, sessionToken, actionType, x, y, px, py, playerAlive, now) ==
    LET cfg == sec.config
        r == isAllowed(sec.histories[playerId], actionType, now)
        sec1 == IF cfg.enableRateLimiting
                THEN [sec EXCEPT !.histories[playerId] = r.history] ELSE sec
        v == validateSession(sec1.sessions, sessionId, sessionToken, now)
        sec2 == IF cfg.enableSessionSecurity
                THEN [sec1 EXCEPT !.sessions = v.sessions] ELSE sec1
        replayCheck == isReplayAction(sec2.actionHistory, playerId, actionType,
                                      x, y, now)
        sec3 == IF cfg.enableReplayProtection
                THEN [sec2 EXCEPT !.actionHistory = replayCheck.history] ELSE sec2
        far == Abs(x - px) > 1 \/ Abs(y - py) > 1
    IN  IF cfg.enableRateLimiting /\ ~r.ok
        THEN Rejected("Rate limit exceeded", FALSE, sec1)
        ELSE IF playerId \in sec.banned THEN Rejected("Player is banned", TRUE, sec1)
        ELSE IF ~playerAlive /\ actionType # "move"
        THEN Rejected("Dead players cannot perform this action", FALSE, sec1)
        ELSE IF cfg.enableSessionSecurity /\ ~v.data.present
        THEN Rejected("Invalid session", TRUE, sec2)
        ELSE IF cfg.enableSessionSecurity /\ v.data.playerId # playerId
        THEN Rejected("Session player mismatch", TRUE, sec2)
        ELSE IF cfg.enableReplayProtection /\ replayCheck.isReplay
        THEN Rejected("Action replay detected", FALSE, sec3)
        ELSE IF /\ cfg.enableReplayProtection
                /\ isDuplicateAction(sec3.actionHistory, playerId, actionType,
                                     x, y, now)
        THEN Rejected("Duplicate action", FALSE, sec3)
        ELSE IF cfg.enableBehaviorValidation /\ actionType = "move" /\ far
        THEN Rejected("Can only move to adjacent tiles", FALSE, sec3)
        ELSE IF /\ cfg.enableBehaviorValidation
                /\ actionType \in {"flip", "flag", "unflag"}
                /\ far
        THEN Rejected("Can only interact with nearby tiles", FALSE, sec3)
        ELSE Verdict(TRUE, "none", FALSE, sec3)

validatePlayerAction(sec, playerId, sessionId, sessionToken, actionType, x, y, px, py, playerAlive, now) ==
    LET cfg == sec.config
        v == validateSession(sec.sessions, sessionId, sessionToken, now)
        sec1 == IF cfg.enableSessionSecurity
                THEN [sec EXCEPT !.sessions = v.sessions] ELSE sec
        r == isAllowed(sec1.histories[playerId], actionType, now)
        sec2 == IF cfg.enableRateLimiting
                THEN [sec1 EXCEPT !.histories[playerId] = r.history] ELSE sec1
        replayCheck == isReplayAction(sec2.actionHistory, playerId, actionType,
                                      x, y, now)
        sec3 == IF cfg.enableReplayProtection
                THEN [sec2 EXCEPT !.actionHistory = replayCheck.history] ELSE sec2
        sequenceCheck == validateActionSequence(sec3.actionHistory, playerId,
                                                actionType, now)
        far == Abs(x - px) > 1 \/ Abs(y - py) > 1
    IN  IF playerId \in sec.banned THEN Rejected("Player is banned", TRUE, sec)
        ELSE IF ~playerAlive /\ actionType # "move"
        THEN Rejected("Dead players cannot perform this action", FALSE, sec)
        ELSE IF cfg.enableSessionSecurity /\ ~v.data.present
        THEN Rejected("Invalid session", TRUE, sec1)
        ELSE IF cfg.enableSessionSecurity /\ v.data.playerId # playerId
        THEN Rejected("Session player mismatch", TRUE, sec1)
        ELSE IF cfg.enableRateLimiting /\ ~r.ok
        THEN Rejected("Rate limit exceeded", FALSE, sec2)
        ELSE IF cfg.enableReplayProtection /\ replayCheck.isReplay
        THEN Rejected("Action replay detected", FALSE, sec3)
        ELSE IF /\ cfg.enableReplayProtection
                /\ isDuplicateAction(sec3.actionHistory, playerId, actionType,
                                     x, y, now)
        THEN Rejected("Duplicate action", FALSE, sec3)
        ELSE IF cfg.enableReplayProtection /\ ~sequenceCheck.isValid
        THEN Rejected(sequenceCheck.reason, FALSE, sec3)
        ELSE IF cfg.enableBehaviorValidation /\ actionType = "move" /\ far
        THEN Rejected("Can only move to adjacent tiles", FALSE, sec3)
        ELSE IF /\ cfg.enableBehaviorValidation
                /\ actionType \in {"flip", "flag", "unflag"}
                /\ far
        THEN Rejected("Can only interact with nearby tiles", FALSE, sec3)
        ELSE Verdict(TRUE, "none", FALSE, sec3)

\* SecurityManager.banPlayer
banPlayer(sec, playerId) ==
    [sec EXCEPT !.banned = sec.banned \cup {playerId},
                !.sessions = IF sec.config.enableSessionSecurity
                             THEN invalidatePlayerSessions(sec.sessions, playerId)
                             ELSE sec.sessions]

\* SecurityManager.unbanPlayer
unbanPlayer(sec, playerId) == [sec EXCEPT !.banned = sec.banned \ {playerId}]

(***************************************************************************)
(* GameManager.                                                            *)
(***************************************************************************)
Outcome(ok, g, sec) == [ok |-> ok, g |-> g, sec |-> sec]

hasCredentials(sessionId, sessionToken) == sessionId # NoId /\ sessionToken # NoToken

requestPlayerMovement(g, sec, playerId, x, y, sessionId, sessionToken, now) ==
    LET p == g.players[playerId]
        v == validatePlayerAction(sec, playerId, sessionId, sessionToken, "move",
                                  x, y, p.x, p.y, p.alive, now)
        m == requestMovement(g, playerId, x, y)
    IN  IF ~p.exists THEN Outcome(FALSE, g, sec)
        ELSE IF Abs(x - p.x) > 1 \/ Abs(y - p.y) > 1 THEN Outcome(FALSE, g, sec)
        ELSE IF hasCredentials(sessionId, sessionToken)
        THEN IF ~v.allowed THEN Outcome(FALSE, g, v.sec)
             ELSE Outcome(m.ok, m.g, v.sec)
        ELSE Outcome(m.ok, m.g, sec)

requestTileAction(g, sec, playerId, x, y, action, sessionId, sessionToken, now) ==
    LET p == g.players[playerId]
        v == validatePlayerAction(sec, playerId, sessionId, sessionToken, action,
                                  x, y, p.x, p.y, p.alive, now)
        t == logicRequestTileAction(g, playerId, x, y, action)
    IN  IF ~p.exists THEN Outcome(FALSE, g, sec)
        ELSE IF Abs(x - p.x) > 1 \/ Abs(y - p.y) > 1 THEN Outcome(FALSE, g, sec)
        ELSE IF ~p.alive /\ action # "move" THEN Outcome(FALSE, g, sec)
        ELSE IF hasCredentials(sessionId, sessionToken)
        THEN IF ~v.allowed THEN Outcome(FALSE, g, v.sec)
             ELSE Outcome(t.ok, t.g, v.sec)
        ELSE Outcome(t.ok, t.g, sec)

removePlayer(players, playerId) ==
    IF players[playerId].exists
    THEN [players EXCEPT ![playerId] = NoPlayer]
    ELSE players

(***************************************************************************)
(* NetworkSystem.  An optional field of a payload is a set: empty when the *)
(* field is undefined, else holding its value.  The tiles of a viewport    *)
(* are listed in the order of their positions, so the list is modelled as  *)
(* the set of its entries.                                                 *)
(***************************************************************************)
Undefined == {}
Defined(v) == {v}

\* variant of sanitizeTileForClient that copies the tile's type
sanitizeTileKeepingType(tile, x, y, players, playerId) ==
    IF ~players[playerId].exists THEN Undefined
    ELSE IF /\ ~tile.revealed
            /\ ~tile.flagged
            /\ ~(Abs(x - players[playerId].x) <= 1 /\ Abs(y - players[playerId].y) <= 1)
    THEN Undefined
    ELSE Defined([x |-> x, y |-> y, revealed |-> tile.revealed,
                  flagged |-> tile.flagged, flaggedBy |-> tile.flaggedBy,
                  type |-> tile.type,
                  number |-> IF tile.revealed THEN Defined(tile.number) ELSE Undefined,
                  exploded |-> IF tile.revealed THEN Defined(tile.exploded) ELSE Undefined])

\* result: the sanitized tile, or Undefined for null
sanitizeTileForClient(tile, x, y, players, playerId) ==
    IF ~players[playerId].exists THEN Undefined
    ELSE IF /\ ~tile.revealed
            /\ ~tile.flagged
            /\ ~(Abs(x - players[playerId].x) <= 1 /\ Abs(y - players[playerId].y) <= 1)
    THEN Undefined
    ELSE Defined([x |-> x, y |-> y, revealed |-> tile.revealed,
                  flagged |-> tile.flagged, flaggedBy |-> tile.flaggedBy,
                  type |-> IF tile.revealed THEN tile.type ELSE "covered",
                  number |-> IF tile.revealed THEN Defined(tile.number) ELSE Undefined,
                  exploded |-> IF tile.revealed THEN Defined(tile.exploded) ELSE Undefined])

getPlayersInViewport(players, centerX, centerY, tilesX, tilesY) ==
    {q \in PlayerIds :
        /\ players[q].exists
        /\ Abs(players[q].x - centerX) <= tilesX
        /\ Abs(players[q].y - centerY) <= tilesY}

\* viewportWidth and viewportHeight are 0 when the request gives none
getViewportForPlayer(tileMap, players, playerId, viewportWidth, viewportHeight) ==
    LET me == players[playerId]
        tilesX == IF viewportWidth # 0 THEN Min2(viewportWidth, ViewportCap)
                  ELSE Min2(DefaultTilesX, ViewportCap)
        tilesY == IF viewportHeight # 0 THEN Min2(viewportHeight, ViewportCap)
                  ELSE Min2(DefaultTilesY, ViewportCap)
        window == {p \in Pos : /\ p[1] >= me.x - tilesX /\ p[1] <= me.x + tilesX
                               /\ p[2] >= me.y - tilesY /\ p[2] <= me.y + tilesY}
        inView == getPlayersInViewport(players, me.x, me.y, tilesX, tilesY)
    IN  IF ~me.exists THEN [tiles |-> {}, players |-> {}]
        ELSE [tiles |-> UNION {sanitizeTileForClient(tileMap[p], p[1], p[2],
                                                     players, playerId) : p \in window},
              players |-> {[id |-> q, x |-> players[q].x, y |-> players[q].y,
                            score |-> players[q].score, flags |-> players[q].flags,
                            alive |-> players[q].alive,
                            connected |-> players[q].connected] :
                                q \in {r \in inView : players[r].connected}}]

\* the viewport-update (or the viewport of a welcome) written for a player
viewportMessage(playerId, payload) ==
    [targetPlayerId |-> playerId, tiles |-> payload.tiles, players |-> payload.players]

\* PlayerRegistry.updatePlayerCache for every player whose component a game
\* rule changed; connecting and disconnecting write the component only
updatePlayerCache(cache, before, after) ==
    [q \in PlayerIds |-> IF after[q] # before[q] THEN after[q] ELSE cache[q]]

\* a message on a channel: to is "all" for server.broadcast, else the client
\* client.write addresses
Message(channel, to, targetPlayerId, leaders, sessionId, isReconnection) ==
    [channel |-> channel, to |-> to, targetPlayerId |-> targetPlayerId,
     players |-> leaders, sessionId |-> sessionId,
     isReconnection |-> isReconnection]

broadcast(channel) == Message(channel, "all", NoId, <<>>, NoId, FALSE)

\* the cached players the leaderboard lists, in the order of the cache (the
\* order in which the players were created)
RECURSIVE leaderboardPlayers(_, _)
leaderboardPlayers(cache, n) ==
    IF n = 0 THEN <<>>
    ELSE IF cache[n].exists /\ cache[n].connected /\ cache[n].score > 0
    THEN Append(leaderboardPlayers(cache, n - 1),
                [id |-> n, score |-> cache[n].score, flags |-> cache[n].flags,
                 alive |-> cache[n].alive])
    ELSE leaderboardPlayers(cache, n - 1)

broadcastLeaderboardUpdate(cache) ==
    Message("leaderboard-update", "all", NoId,
            leaderboardPlayers(cache, Cardinality(PlayerIds)), NoId, FALSE)

\* sendViewportUpdate: the clientId it is given is not used
sendViewportUpdate(playerId, clientId) ==
    Message("viewport-update", "all", playerId, <<>>, NoId, FALSE)

(***************************************************************************)
(* State of the server.                                                    *)
(***************************************************************************)
VARIABLES
    tiles,           \* TileRegistry: position -> tile component
    players,         \* PlayerRegistry: player id -> player entity
    flaggedMines,    \* GameLogicSystem.flaggedMines
    sessions,        \* SessionManager.sessions
    histories,       \* RateLimiter.playerActions
    banned,          \* SecurityManager.bannedPlayers
    playerSessions,  \* index_ecs playerSessions, in insertion order
    nextPlayerId,    \* number of player ids generated so far, plus one
    nextSessionId,   \* number of session ids generated so far, plus one
    now,             \* Date.now()
    last,            \* the request handled last and what was answered
    admitted,        \* per player and kind, the times at which a direct
                     \* caller of the rate limiter was answered true
    viewport,        \* the viewport payload written last
    broadcasts,      \* the channels the event handled last broadcast on
    gameEnds,        \* number of game-end broadcasts emitted so far
    config,          \* SecurityManager.config
    timers,          \* the callbacks scheduled with setTimeout and not yet run
    explosions,      \* the explosion events broadcast by a handler that
                     \* chains explosions with timers, in order
    actionHistory,   \* ReplayProtection.actionHistory, in insertion order
    playerDataCache, \* PlayerRegistry.playerDataCache
    outbox,          \* the messages the event handled last wrote, in order
    steps            \* events handled so far

vars == <<tiles, players, flaggedMines, sessions, histories, banned,
          playerSessions, nextPlayerId, nextSessionId, now, last, admitted,
          viewport, broadcasts, gameEnds, config, timers, explosions, actionHistory,
          playerDataCache, outbox, steps>>

gameVars == <<tiles, players, flaggedMines>>
securityVars == <<sessions, histories, banned>>
connectionVars == <<playerSessions, nextPlayerId, nextSessionId>>

totalMines == Cardinality({p \in Pos : generateWorld(MineLayout, TokenLayout)[p].type = "mine"})

Request(op, client, playerId, action, x, y, px, py, sessionId, token, ok) ==
    [op |-> op, client |-> client, playerId |-> playerId, action |-> action,
     x |-> x, y |-> y, px |-> px, py |-> py,
     sessionId |-> sessionId, token |-> token, ok |-> ok,
     reason |-> "none", shouldDisconnect |-> FALSE, alive |-> TRUE]

\* the state after construction, with the world the generator has built
InitState(cfg, tileMap) ==
    /\ tiles = tileMap
    /\ players = [p \in PlayerIds |-> NoPlayer]
    /\ flaggedMines = 0
    /\ sessions = [s \in SessionIds |-> NoSession]
    /\ histories = [p \in PlayerIds |-> <<>>]
    /\ banned = {}
    /\ playerSessions = <<>>
    /\ nextPlayerId = 1
    /\ nextSessionId = 1
    /\ now = 0
    /\ last = Request("init", "none", NoId, "none", 0, 0, 0, 0, NoId, NoToken, FALSE)
    /\ admitted = [p \in PlayerIds |-> [k \in ActionKinds |-> <<>>]]
    /\ viewport = viewportMessage(NoId, [tiles |-> {}, players |-> {}])
    /\ broadcasts = {}
    /\ gameEnds = 0
    /\ config = cfg
    /\ timers = <<>>
    /\ explosions = <<>>
    /\ actionHistory = <<>>
    /\ playerDataCache = [p \in PlayerIds |-> NoPlayer]
    /\ outbox = <<>>
    /\ steps = 0

InitWith(cfg) ==
    /\ LayoutValid
    /\ InitState(cfg, generateWorld(MineLayout, TokenLayout))

Init == InitWith(ServerConfig)

game == [tiles |-> tiles, players |-> players, flaggedMines |-> flaggedMines]
security ==
    [sessions |-> sessions, histories |-> histories, banned |-> banned,
     config |-> config, actionHistory |-> actionHistory]

\* variant of findSession that takes the first session, whoever holds it
findSessionAny(ps, client) == IF ps = <<>> THEN 0 ELSE 1

\* Array.from(playerSessions.values()).find(s => s.player.clientId === client.label)
findSession(ps, client) ==
    LET hits == {i \in 1 .. Len(ps) : ps[i].clientId = client}
    IN IF hits = {} THEN 0 ELSE CHOOSE i \in hits : \A j \in hits : i <= j

\* variant of setSession that adds the entry and keeps the one the key had
setSessionKeepingOld(ps, entry) == Append(ps, entry)

\* playerSessions.set(sessionId, value): a present key keeps its place
setSession(ps, entry) ==
    LET hits == {i \in 1 .. Len(ps) : ps[i].sessionId = entry.sessionId}
    IN IF hits = {} THEN Append(ps, entry)
       ELSE [i \in 1 .. Len(ps) |-> IF i \in hits THEN entry ELSE ps[i]]

checkGameEnd(flagged) == totalMines - flagged <= 0

\* variant of restorePlayer that leaves the connection status as it is
restorePlayerKeepingStatus(ps, playerId) == ps

\* variant of restorePlayer that also brings the player back to life
restorePlayerAlive(ps, playerId) ==
    [ps EXCEPT ![playerId].connected = TRUE, ![playerId].alive = TRUE]

\* the reconnection branch of player-preferences: playerComp.connected = true
restorePlayer(ps, playerId) == [ps EXCEPT ![playerId].connected = TRUE]

\* the channels GameManager.handleExplosion broadcasts on when a flip sets off
\* a mine (the flipper is alive, so killedPlayers is never empty)
explosionBroadcasts(before, action, x, y, ok) ==
    IF /\ ok
       /\ action = "flip"
       /\ ~before.tiles[<<x, y>>].revealed
       /\ ~before.tiles[<<x, y>>].flagged
       /\ before.tiles[<<x, y>>].type = "mine"
    THEN {"explosion", "player-death", "leaderboard-update"}
    ELSE {}

\* the channels the success branch of player-action broadcasts on
successBroadcasts(after, action) ==
    {"viewport-update", "tile-update", "player-update"}
        \cup (IF action \in {"flip", "flag"} THEN {"leaderboard-update"} ELSE {})
        \cup (IF checkGameEnd(after.flaggedMines) THEN {"game-end"} ELSE {})

\* the messages GameManager.handleExplosion writes, in order, while the flip
\* of a mine is being applied
explosionMessages(before, after, cache, action, x, y, ok) ==
    IF explosionBroadcasts(before, action, x, y, ok) = {} THEN <<>>
    ELSE LET killed == {q \in PlayerIds : before.players[q].alive
                                          /\ ~after.players[q].alive}
             deaths == [i \in 1 .. Cardinality(killed) |-> broadcast("player-death")]
         IN <<broadcast("explosion")>> \o deaths
                \o <<broadcastLeaderboardUpdate(cache)>>

\* the messages the success branch of player-action writes, in order
successMessages(after, cache, playerId, client, action) ==
    <<sendViewportUpdate(playerId, client), broadcast("tile-update"),
      broadcast("player-update")>>
        \o (IF action \in {"flip", "flag"}
            THEN <<broadcastLeaderboardUpdate(cache)>> ELSE <<>>)
        \o (IF checkGameEnd(after.flaggedMines)
            THEN <<broadcast("game-end")>> ELSE <<>>)

actionMessages(before, after, cache, playerId, client, action, x, y, ok) ==
    explosionMessages(before, after, cache, action, x, y, ok)
        \o (IF ok THEN successMessages(after, cache, playerId, client, action)
            ELSE <<>>)

actionBroadcasts(before, after, action, x, y, ok) ==
    explosionBroadcasts(before, action, x, y, ok)
        \cup (IF ok THEN successBroadcasts(after, action) ELSE {})

(***************************************************************************)
(* player-preferences: a reconnection with valid credentials, else a new   *)
(* player at a spawn point the server draws.                               *)
(***************************************************************************)
PlayerPreferences(client, sessionId, sessionToken, spawn) ==
    LET given == hasCredentials(sessionId, sessionToken)
        v == validateSession(sessions, sessionId, sessionToken, now)
        afterCheck == IF given /\ enableSessionSecurity THEN v.sessions ELSE sessions
        reconnect == /\ given
                     /\ v.data.present
                     /\ v.data.playerId # NoId
                     /\ players[v.data.playerId].exists
    IN  /\ now' = now
        /\ UNCHANGED <<tiles, flaggedMines, histories, banned, admitted, gameEnds,
                       config, timers, explosions, actionHistory>>
        /\ broadcasts' = {"leaderboard-update", "player-update"}
        /\ playerDataCache' =
              IF reconnect THEN playerDataCache
              ELSE [playerDataCache EXCEPT ![nextPlayerId] =
                        createPlayerComponent(spawn, client)]
        /\ outbox' = <<Message("session-assigned", client, NoId, <<>>,
                               IF reconnect THEN sessionId ELSE nextSessionId,
                               reconnect),
                       Message("welcome", client,
                               IF reconnect THEN v.data.playerId ELSE nextPlayerId,
                               <<>>, NoId, FALSE),
                       broadcastLeaderboardUpdate(playerDataCache'),
                       broadcast("player-update")>>
        /\ IF reconnect
           THEN /\ players' = restorePlayer(players, v.data.playerId)
                /\ sessions' = afterCheck
                /\ playerSessions' = setSession(playerSessions,
                        [sessionId |-> sessionId, playerId |-> v.data.playerId,
                         clientId |-> client, lastSeen |-> now])
                /\ UNCHANGED <<nextPlayerId, nextSessionId>>
                /\ last' = Request("reconnect", client, v.data.playerId, "none",
                                   0, 0, 0, 0, sessionId, sessionToken, TRUE)
           ELSE /\ nextPlayerId \in PlayerIds
                /\ nextSessionId \in SessionIds
                /\ sessions' = createSession(afterCheck, nextSessionId,
                                             nextPlayerId, now)
                /\ players' = [players EXCEPT ![nextPlayerId] =
                                    createPlayerComponent(spawn, client)]
                /\ playerSessions' = setSession(playerSessions,
                        [sessionId |-> nextSessionId, playerId |-> nextPlayerId,
                         clientId |-> client, lastSeen |-> now])
                /\ nextPlayerId' = nextPlayerId + 1
                /\ nextSessionId' = nextSessionId + 1
                /\ last' = Request("join", client, nextPlayerId, "none",
                                   spawn[1], spawn[2], 0, 0,
                                   sessionId, sessionToken, TRUE)
        /\ viewport' = viewportMessage(last'.playerId,
                            getViewportForPlayer(tiles', players', last'.playerId, 0, 0))

\* variant of the player-action handler that applies the action at once, with
\* none of the checks the pipeline makes before it
PlayerActionUnguarded(client, action, x, y, sessionId, sessionToken, viewportWidth, viewportHeight) ==
    LET i == findSession(playerSessions, client)
        playerId == playerSessions[i].playerId
        p == players[playerId]
    IN  /\ i # 0
        /\ isValidPosition(x, y)
        /\ now' = now
        /\ UNCHANGED <<securityVars, nextPlayerId, nextSessionId, admitted,
                       viewport, gameEnds, config, timers, explosions, actionHistory>>
        /\ playerSessions' = [playerSessions EXCEPT ![i].lastSeen = now]
        /\ \E g \in {IF action = "move"
                      THEN processMovement(game, playerId, x, y)
                      ELSE processTileAction(game, playerId, x, y, action)} :
              /\ tiles' = g.tiles
              /\ players' = g.players
              /\ flaggedMines' = g.flaggedMines
              /\ playerDataCache' = updatePlayerCache(playerDataCache, players, g.players)
        /\ last' = Request("action", client, playerId, action, x, y, p.x, p.y,
                           sessionId, sessionToken, TRUE)
        /\ broadcasts' = {}
        /\ outbox' = <<>>

(***************************************************************************)
(* player-action: the whole handler, from the session lookup to the game   *)
(* rules, and the broadcasts that follow a success.                        *)
(***************************************************************************)
PlayerAction(client, action, x, y, sessionId, sessionToken, viewportWidth, viewportHeight) ==
    LET i == findSession(playerSessions, client)
        playerId == playerSessions[i].playerId
        p == players[playerId]
        answer == IF action = "move"
                  THEN requestPlayerMovement(game, security, playerId, x, y,
                                             sessionId, sessionToken, now)
                  ELSE requestTileAction(game, security, playerId, x, y, action,
                                         sessionId, sessionToken, now)
    IN  /\ now' = now
        /\ UNCHANGED <<banned, nextPlayerId, nextSessionId, admitted, config, timers, explosions>>
        /\ IF i = 0
           THEN /\ UNCHANGED <<gameVars, sessions, histories, playerSessions,
                               viewport, gameEnds, actionHistory, playerDataCache>>
                /\ broadcasts' = {}
                /\ outbox' = <<>>
                /\ last' = Request("action", client, NoId, action, x, y, 0, 0,
                                   sessionId, sessionToken, FALSE)
           ELSE /\ playerSessions' = [playerSessions EXCEPT ![i].lastSeen = now]
                /\ IF p.exists /\ ~p.alive /\ action # "move"
                   THEN /\ UNCHANGED <<gameVars, sessions, histories, viewport,
                                       gameEnds, actionHistory, playerDataCache>>
                        /\ broadcasts' = {}
                        /\ outbox' = <<Message("player-death", client, playerId,
                                               <<>>, NoId, FALSE)>>
                        /\ last' = Request("action", client, playerId, action,
                                           x, y, p.x, p.y,
                                           sessionId, sessionToken, FALSE)
                   ELSE \E out \in {answer} :
                        /\ tiles' = out.g.tiles
                        /\ players' = out.g.players
                        /\ flaggedMines' = out.g.flaggedMines
                        /\ sessions' = out.sec.sessions
                        /\ histories' = out.sec.histories
                        /\ actionHistory' = out.sec.actionHistory
                        /\ playerDataCache' = updatePlayerCache(playerDataCache,
                                                    players, out.g.players)
                        /\ outbox' = actionMessages(game, out.g, playerDataCache',
                                          playerId, client, action, x, y, out.ok)
                        /\ last' = Request("action", client, playerId, action,
                                           x, y, p.x, p.y,
                                           sessionId, sessionToken, out.ok)
                        /\ viewport' =
                             IF out.ok
                             THEN viewportMessage(playerId,
                                    getViewportForPlayer(out.g.tiles, out.g.players,
                                        playerId, viewportWidth, viewportHeight))
                             ELSE viewport
                        /\ broadcasts' = actionBroadcasts(game, out.g, action,
                                                          x, y, out.ok)
                        /\ gameEnds' = IF "game-end" \in broadcasts'
                                       THEN gameEnds + 1 ELSE gameEnds

\* the credentials the server assigned to the client's session
ownSessionId(client) ==
    IF findSession(playerSessions, client) = 0 THEN NoId
    ELSE playerSessions[findSession(playerSessions, client)].sessionId

ownToken(client) ==
    IF ownSessionId(client) = NoId THEN NoToken
    ELSE sessions[ownSessionId(client)].token

\* where the client's player stands
ownPosition(client) ==
    IF findSession(playerSessions, client) = 0 THEN <<0, 0>>
    ELSE <<players[playerSessions[findSession(playerSessions, client)].playerId].x,
           players[playerSessions[findSession(playerSessions, client)].playerId].y>>

\* one more event within the budget of a run
Step(budget) == steps < budget /\ steps' = steps + 1

Join ==
    /\ Step(MaxSteps)
    /\ \E c \in Clients, sp \in SpawnPoints : PlayerPreferences(c, NoId, NoToken, sp)

Act ==
    /\ Step(MaxSteps)
    /\ \E c \in Clients, a \in ActionKinds, o \in Offsets :
          PlayerAction(c, a, ownPosition(c)[1] + o[1], ownPosition(c)[2] + o[2],
                       ownSessionId(c), ownToken(c), 0, 0)

Next == Join \/ Act

Spec == Init /\ [][Next]_vars

(***************************************************************************)
(* Properties of the game rules.                                           *)
(***************************************************************************)
\* the request handled last was a player action of the given kinds, answered ok
Accepted(kinds) == last.op = "action" /\ last.action \in kinds /\ last.ok

\* the step handles a player action of the given kind and answers ok
Accepts(kind) ==
    /\ steps' = steps + 1
    /\ last'.op = "action"
    /\ last'.action = kind
    /\ last'.ok

InWorld(x, y) == x \in Coord /\ y \in Coord

\* C2: every accepted move goes to an orthogonal neighbour (|dx| + |dy| = 1)
\* inside the world, onto a tile that is walkable when the move is committed
\* (revealed and not a mine, or flagged), and the player stands there afterwards.
C2_AcceptedMoveIsLegal ==
    Accepted({"move"}) =>
        /\ Abs(last.x - last.px) + Abs(last.y - last.py) = 1
        /\ InWorld(last.x, last.y)
        /\ \/ (tiles[<<last.x, last.y>>].revealed
               /\ tiles[<<last.x, last.y>>].type # "mine")
           \/ tiles[<<last.x, last.y>>].flagged
        /\ players[last.playerId].x = last.x
        /\ players[last.playerId].y = last.y

C2_Witness ==
    /\ Accepted({"move"})
    /\ players[last.playerId].x = last.x
    /\ players[last.playerId].x # last.px

\* C3: every accepted flip, flag or unflag targets a tile inside the world at
\* Chebyshev distance exactly 1 from the actor; a target at distance 0 or at
\* distance 2 or more is rejected.
C3_AcceptedTileActionIsAdjacent ==
    Accepted(TileKinds) =>
        /\ InWorld(last.x, last.y)
        /\ Chebyshev(last.x, last.y, last.px, last.py) = 1

C3_Witness ==
    /\ Accepted({"flip"})
    /\ tiles[<<last.x, last.y>>].revealed
    /\ Chebyshev(last.x, last.y, last.px, last.py) = 1

\* C7: an accepted flag by a living player holding at least one flag, on an
\* adjacent covered unflagged tile, takes one flag from the player, marks the
\* tile flagged by that player, and, exactly when the tile is a mine, adds 3 to
\* the player's score and 1 to the flagged-mine count; otherwise score and
\* count stay as they were.
C7_FlagEffect ==
    [][(/\ Accepts("flag")
        /\ InWorld(last'.x, last'.y)
        /\ Chebyshev(last'.x, last'.y, last'.px, last'.py) = 1
        /\ ~tiles[<<last'.x, last'.y>>].revealed
        /\ ~tiles[<<last'.x, last'.y>>].flagged
        /\ players[last'.playerId].alive
        /\ players[last'.playerId].flags >= 1)
       => (/\ players'[last'.playerId].flags = players[last'.playerId].flags - 1
           /\ tiles'[<<last'.x, last'.y>>].flagged
           /\ tiles'[<<last'.x, last'.y>>].flaggedBy = last'.playerId
           /\ IF tiles[<<last'.x, last'.y>>].type = "mine"
              THEN /\ players'[last'.playerId].score =
                            players[last'.playerId].score + 3
                   /\ flaggedMines' = flaggedMines + 1
              ELSE /\ players'[last'.playerId].score =
                            players[last'.playerId].score
                   /\ flaggedMines' = flaggedMines)]_vars

C7_Witness ==
    /\ Accepted({"flag"})
    /\ InWorld(last.x, last.y)
    /\ tiles[<<last.x, last.y>>].type = "mine"
    /\ tiles[<<last.x, last.y>>].flaggedBy = last.playerId
    /\ flaggedMines = 1
    /\ players[last.playerId].flags = DefaultFlags

\* C8: a successful flip (accepted, on a covered unflagged tile) changes the
\* actor's score by exactly +1 when the tile is empty, numbered or a flag
\* token, and by 0 when it is a mine; no other player's score changes.
C8_FlipScore ==
    [][(/\ Accepts("flip")
        /\ InWorld(last'.x, last'.y)
        /\ ~tiles[<<last'.x, last'.y>>].revealed
        /\ ~tiles[<<last'.x, last'.y>>].flagged)
       => (/\ players'[last'.playerId].score =
                players[last'.playerId].score +
                    (IF tiles[<<last'.x, last'.y>>].type = "mine" THEN 0 ELSE 1)
           /\ \A q \in PlayerIds \ {last'.playerId} :
                players'[q].score = players[q].score)]_vars

(***************************************************************************)
(* Explosions: runs long enough for two players to join and for one of     *)
(* them to walk up to a mine and flip it.                                  *)
(***************************************************************************)
ChainKinds == {"move", "flip"}
ChainOffsets == {<<1, 0>>, <<1, 1>>}

JoinChain ==
    /\ Step(MaxChainSteps)
    /\ \E c \in Clients, sp \in SpawnPoints : PlayerPreferences(c, NoId, NoToken, sp)

ActChain ==
    /\ Step(MaxChainSteps)
    /\ \E c \in Clients, a \in ChainKinds, o \in ChainOffsets :
          PlayerAction(c, a, ownPosition(c)[1] + o[1], ownPosition(c)[2] + o[2],
                       ownSessionId(c), ownToken(c), 0, 0)

NextChain == JoinChain \/ ActChain

SpecChain == Init /\ [][NextChain]_vars

\* the step is an accepted flip of a covered unflagged mine: the mine explodes
Explodes ==
    /\ Accepts("flip")
    /\ InWorld(last'.x, last'.y)
    /\ ~tiles[<<last'.x, last'.y>>].revealed
    /\ ~tiles[<<last'.x, last'.y>>].flagged
    /\ tiles[<<last'.x, last'.y>>].type = "mine"

\* C9: when a mine explodes at an origin, the flipper dies and every alive
\* player within Euclidean distance 3 of the origin dies; a player farther
\* than 3 from the origin stays alive.
C9_ExplosionKillsWithinRadius ==
    [][Explodes =>
        (/\ ~players'[last'.playerId].alive
         /\ \A q \in PlayerIds :
              (players[q].exists /\ players[q].alive /\ q # last'.playerId) =>
                 IF SqDist(players[q].x, players[q].y, last'.x, last'.y)
                        <= DocumentedRadius * DocumentedRadius
                 THEN ~players'[q].alive
                 ELSE players'[q].alive)]_vars

\* C10: every mine caught within the radius of an explosion explodes itself as
\* a new explosion centred on it, transitively: once the handler is done (the
\* server keeps no timer and no queue of pending explosions), every exploded
\* mine has blasted its own surroundings, and no alive player stands in them.
C10_ChainedMinesExplode ==
    \A m \in MineLayout :
        tiles[m].exploded =>
            /\ \A p \in Pos :
                 SqDist(m[1], m[2], p[1], p[2]) <= ExplosionRadius * ExplosionRadius
                    => tiles[p].exploded
            /\ \A q \in PlayerIds :
                 (players[q].exists /\ players[q].alive) =>
                    \/ SqDist(m[1], m[2], players[q].x, players[q].y)
                            > ExplosionRadius * ExplosionRadius
                    \/ tiles[<<players[q].x, players[q].y>>].exploded

(***************************************************************************)
(* Authentication: player actions that carry any credentials a client can  *)
(* put on the wire: none, a forged token, its own, another session's.      *)
(***************************************************************************)
AuthKinds == {"move", "flip", "flag"}
AuthOffsets == {<<1, 0>>}

\* the tokens issued so far, a forged one, and none at all
TokenInputs ==
    {NoToken, ForgedToken} \cup {sessions[s].token : s \in {t \in SessionIds : sessions[t].present}}

JoinAuth ==
    /\ Step(MaxSteps)
    /\ \E c \in Clients, sp \in SpawnPoints : PlayerPreferences(c, NoId, NoToken, sp)

ActAuth ==
    /\ Step(MaxSteps)
    /\ \E c \in Clients, a \in AuthKinds, o \in AuthOffsets :
         \E sid \in SessionIds \cup {NoId}, tok \in TokenInputs :
            PlayerAction(c, a, ownPosition(c)[1] + o[1], ownPosition(c)[2] + o[2],
                         sid, tok, 0, 0)

NextAuth == JoinAuth \/ ActAuth

SpecAuth == Init /\ [][NextAuth]_vars

\* the session exists, has not expired, the token is the one issued for it,
\* and the session is bound to the player
CredentialsValidFor(sessionId, token, playerId) ==
    /\ sessionId \in SessionIds
    /\ sessions[sessionId].present
    /\ now <= sessions[sessionId].expiresAt
    /\ token = sessions[sessionId].token
    /\ sessions[sessionId].playerId = playerId

\* C1: every player action that is accepted or changes the world was presented
\* with a session id and token that validate and are bound to the acting
\* player; an action with missing credentials, invalid credentials, or a
\* session bound to another player is rejected and changes nothing.
C1_ActionsAreAuthenticated ==
    [][(/\ steps' = steps + 1
        /\ last'.op = "action"
        /\ ~CredentialsValidFor(last'.sessionId, last'.token, last'.playerId))
       => (/\ ~last'.ok
           /\ tiles' = tiles
           /\ players' = players
           /\ flaggedMines' = flaggedMines)]_vars

\* what the pipeline does enforce: credentials that are presented (both the
\* id and the token) and do not validate for the actor are rejected, and the
\* world stays as it was
PresentedCredentialsAreChecked ==
    [][(/\ steps' = steps + 1
        /\ last'.op = "action"
        /\ hasCredentials(last'.sessionId, last'.token)
        /\ ~CredentialsValidFor(last'.sessionId, last'.token, last'.playerId))
       => (/\ ~last'.ok
           /\ tiles' = tiles
           /\ players' = players
           /\ flaggedMines' = flaggedMines)]_vars

(***************************************************************************)
(* The rate limiter on its own: calls of isAllowed at the instants a clock *)
(* reaches, and the periodic cleanup.                                      *)
(***************************************************************************)
RateKinds == {"flip", "move"}
RateTicks == {400, 1001}

IsAllowedCall(playerId, actionType) ==
    \E r \in {isAllowed(histories[playerId], actionType, now)} :
        /\ histories' = [histories EXCEPT ![playerId] = r.history]
        /\ admitted' = IF r.ok
                       THEN [admitted EXCEPT ![playerId][actionType] = Append(@, now)]
                       ELSE admitted
        /\ last' = Request("isAllowed", "none", playerId, actionType,
                           0, 0, 0, 0, NoId, NoToken, r.ok)
        /\ UNCHANGED <<gameVars, sessions, banned, connectionVars, now, viewport, gameEnds, config, timers, explosions, actionHistory, playerDataCache>>
        /\ broadcasts' = {}
        /\ outbox' = <<>>

\* an event that answers nothing to a client
Event(op) == Request(op, "none", NoId, "none", 0, 0, 0, 0, NoId, NoToken, FALSE)

Tick(d) ==
    /\ now' = now + d
    /\ last' = Event("tick")
    /\ UNCHANGED <<gameVars, securityVars, connectionVars, admitted, viewport, gameEnds, config, timers, explosions, actionHistory, playerDataCache>>
    /\ broadcasts' = {}
    /\ outbox' = <<>>

CleanupCall ==
    /\ histories' = cleanup(histories, now)
    /\ last' = Event("cleanup")
    /\ UNCHANGED <<gameVars, sessions, banned, connectionVars, now, admitted, viewport, gameEnds, config, timers, explosions, actionHistory, playerDataCache>>
    /\ broadcasts' = {}
    /\ outbox' = <<>>

RateCall ==
    /\ Step(MaxCalls)
    /\ \E p \in PlayerIds, k \in RateKinds : IsAllowedCall(p, k)

RateTick == Step(MaxCalls) /\ \E d \in RateTicks : Tick(d)

RateCleanup == Step(MaxCalls) /\ CleanupCall

NextRate == RateCall \/ RateTick \/ RateCleanup

SpecRate == Init /\ [][NextRate]_vars

\* the caps the rate limiter is documented to enforce per second
ClaimedCap(kind) == IF kind = "move" THEN 10 ELSE 5

\* how many of the times lie within the second that ends now
CountRecent(times) ==
    Cardinality({i \in 1 .. Len(times) : times[i] >= now - 1000})

RecentOfKind(playerId, kind) == CountRecent(admitted[playerId][kind])

RecentTotal(playerId) ==
    LET kinds == ActionKinds
        Sum[ks \in SUBSET kinds] ==
            IF ks = {} THEN 0
            ELSE LET k == CHOOSE x \in ks : TRUE
                 IN RecentOfKind(playerId, k) + Sum[ks \ {k}]
    IN Sum[kinds]

\* C4: the rate limiter admits an action of kind k exactly when, among that
\* player's actions admitted in the preceding second, fewer than cap(k) are of
\* kind k (move 10, flip 5, flag 5, unflag 5) and fewer than 20 are of any
\* kind; a rejected action is not recorded.
C4_RateLimitIsEnforced ==
    [][(steps' = steps + 1 /\ last'.op = "isAllowed") =>
        (/\ last'.ok <=>
                (/\ RecentOfKind(last'.playerId, last'.action)
                        < ClaimedCap(last'.action)
                 /\ RecentTotal(last'.playerId) < 20)
         /\ ~last'.ok => (admitted' = admitted /\ histories' = histories))]_vars

(***************************************************************************)
(* The session manager on its own: sessions are created, validated with    *)
(* any token, refreshed, invalidated and swept while the clock advances.   *)
(***************************************************************************)
SessionTicks == {1, SESSION_DURATION}

CreateSessionCall(playerId) ==
    /\ nextSessionId \in SessionIds
    /\ sessions' = createSession(sessions, nextSessionId, playerId, now)
    /\ nextSessionId' = nextSessionId + 1
    /\ last' = Request("createSession", "none", playerId, "none", 0, 0, 0, 0,
                       nextSessionId,
                       generateSecureToken(nextSessionId,
                            [playerId |-> playerId, createdAt |-> now]),
                       TRUE)
    /\ UNCHANGED <<gameVars, histories, banned, playerSessions, nextPlayerId,
                   now, admitted, viewport, gameEnds, config, timers, explosions, actionHistory, playerDataCache>>
    /\ broadcasts' = {}
    /\ outbox' = <<>>

ValidateSessionCall(sessionId, token) ==
    \E v \in {validateSession(sessions, sessionId, token, now)} :
        /\ sessions' = v.sessions
        /\ last' = Request("validateSession", "none", v.data.playerId, "none",
                           0, 0, 0, 0, sessionId, token, v.data.present)
        /\ UNCHANGED <<gameVars, histories, banned, connectionVars, now, admitted, viewport, gameEnds, config, timers, explosions, actionHistory, playerDataCache>>
        /\ broadcasts' = {}
        /\ outbox' = <<>>

RefreshSessionCall(sessionId) ==
    /\ sessions' = refreshSession(sessions, sessionId, now)
    /\ last' = [Event("refreshSession") EXCEPT !.sessionId = sessionId]
    /\ UNCHANGED <<gameVars, histories, banned, connectionVars, now, admitted, viewport, gameEnds, config, timers, explosions, actionHistory, playerDataCache>>
    /\ broadcasts' = {}
    /\ outbox' = <<>>

InvalidateSessionCall(sessionId) ==
    /\ sessions' = invalidateSession(sessions, sessionId)
    /\ last' = [Event("invalidateSession") EXCEPT !.sessionId = sessionId]
    /\ UNCHANGED <<gameVars, histories, banned, connectionVars, now, admitted, viewport, gameEnds, config, timers, explosions, actionHistory, playerDataCache>>
    /\ broadcasts' = {}
    /\ outbox' = <<>>

CleanupSessionsCall ==
    /\ sessions' = cleanupExpiredSessions(sessions, now)
    /\ last' = Event("cleanupExpiredSessions")
    /\ UNCHANGED <<gameVars, histories, banned, connectionVars, now, admitted, viewport, gameEnds, config, timers, explosions, actionHistory, playerDataCache>>
    /\ broadcasts' = {}
    /\ outbox' = <<>>

SessionCreate == Step(MaxCalls) /\ \E p \in PlayerIds : CreateSessionCall(p)

SessionValidate ==
    /\ Step(MaxCalls)
    /\ \E sid \in SessionIds \cup {NoId}, tok \in TokenInputs :
            ValidateSessionCall(sid, tok)

SessionRefresh == Step(MaxCalls) /\ \E sid \in SessionIds : RefreshSessionCall(sid)

SessionInvalidate == Step(MaxCalls) /\ \E sid \in SessionIds : InvalidateSessionCall(sid)

SessionCleanup == Step(MaxCalls) /\ CleanupSessionsCall

SessionTick == Step(MaxCalls) /\ \E d \in SessionTicks : Tick(d)

NextSession ==
    \/ SessionCreate
    \/ SessionValidate
    \/ SessionRefresh
    \/ SessionInvalidate
    \/ SessionCleanup
    \/ SessionTick

SpecSession == Init /\ [][NextSession]_vars

\* C5: validate(session id, token) succeeds exactly when the session exists,
\* has not expired, and the token is the one issued for that session; on
\* success it returns the player id supplied when the session was created.
\* An unknown session id, or the token of another session, is invalid.
C5_ValidateIffIssued ==
    [][(steps' = steps + 1 /\ last'.op = "validateSession") =>
        (/\ last'.ok <=>
                (/\ last'.sessionId \in SessionIds
                 /\ sessions[last'.sessionId].present
                 /\ now <= sessions[last'.sessionId].expiresAt
                 /\ last'.token = sessions[last'.sessionId].token)
         /\ last'.ok => last'.playerId = sessions[last'.sessionId].playerId)]_vars

C5_Witness ==
    /\ last.op = "validateSession"
    /\ last.ok
    /\ last.playerId = 2
    /\ now > 0

\* the other side of C5: a token issued for one session was refused for another
C5_RefusalSeen ==
    /\ last.op = "validateSession"
    /\ ~last.ok
    /\ last.sessionId \in SessionIds
    /\ sessions[last.sessionId].present
    /\ last.token \in {sessions[s].token : s \in SessionIds \ {last.sessionId}}
    /\ last.token # NoToken

(***************************************************************************)
(* Viewports: players join, act and ask for viewports of several sizes.    *)
(***************************************************************************)
ViewKinds == {"move", "flip", "flag"}
ViewOffsets == {<<1, 0>>, <<1, 1>>}
ViewSizes == {0, 1}

JoinView ==
    /\ Step(MaxViewSteps)
    /\ \E c \in Clients, sp \in SpawnPoints : PlayerPreferences(c, NoId, NoToken, sp)

ActView ==
    /\ Step(MaxViewSteps)
    /\ \E c \in Clients, a \in ViewKinds, o \in ViewOffsets, size \in ViewSizes :
          PlayerAction(c, a, ownPosition(c)[1] + o[1], ownPosition(c)[2] + o[2],
                       ownSessionId(c), ownToken(c), size, size)

NextView == JoinView \/ ActView

SpecView == Init /\ [][NextView]_vars

\* the event handled last wrote a viewport, computed from the present state
ViewportIsFresh == last.op \in {"join", "reconnect", "action"} /\ last.ok

\* the kinds a tile can hide
HiddenKinds == {"empty", "numbered", "mine", "flag_token"}

\* the world with the hidden kind of one tile replaced
WithHidden(p, kind) == [tiles EXCEPT ![p].type = kind]

\* the viewport of the player in a world does not depend on the kind that
\* any one unrevealed tile hides
SameViewportInAllWorlds(playerId, size) ==
    LET here == getViewportForPlayer(tiles, players, playerId, size, size)
    IN \A p \in {q \in Pos : ~tiles[q].revealed} :
          \A kind \in HiddenKinds \ {tiles[p].type} :
             getViewportForPlayer(WithHidden(p, kind), players, playerId, size, size)
                = here

\* C6: a viewport holds a tile only if the tile is revealed, flagged, or within
\* Chebyshev distance 1 of the player; an unrevealed tile is reported with kind
\* "covered" and without number and exploded; and two worlds that differ only
\* in the hidden kind of unrevealed tiles give the same viewport payload (shown
\* for one tile at a time, which covers any number of tiles by chaining).
C6_ViewportHidesUnrevealed ==
    ViewportIsFresh =>
        /\ \E size \in ViewSizes :
             viewport = viewportMessage(viewport.targetPlayerId,
                            getViewportForPlayer(tiles, players,
                                viewport.targetPlayerId, size, size))
        /\ \A t \in viewport.tiles :
             \/ t.revealed
             \/ t.flagged
             \/ Chebyshev(t.x, t.y, players[viewport.targetPlayerId].x,
                          players[viewport.targetPlayerId].y) <= 1
        /\ \A t \in viewport.tiles :
             ~t.revealed =>
                (t.type = "covered" /\ t.number = {} /\ t.exploded = {})
        /\ \A size \in ViewSizes :
             SameViewportInAllWorlds(viewport.targetPlayerId, size)

C6_Witness ==
    /\ ViewportIsFresh
    /\ last.op = "action"
    /\ \E t \in viewport.tiles :
         /\ ~t.revealed
         /\ t.type = "covered"
         /\ tiles[<<t.x, t.y>>].type = "mine"
         /\ Chebyshev(t.x, t.y, players[viewport.targetPlayerId].x,
                      players[viewport.targetPlayerId].y) = 1
    /\ \E p \in Pos : ~tiles[p].revealed /\ tiles[p].type = "mine"
                      /\ \A t \in viewport.tiles : <<t.x, t.y>> # p

(***************************************************************************)
(* A whole game of one client: runs long enough to flag every mine, to set *)
(* off a mine next to a flag, and to act again once the game has ended.    *)
(***************************************************************************)
MaxGameSteps == 8
GameClients == {"c1"}
GameOffsets == {<<1, 0>>, <<1, 1>>}

JoinGame ==
    /\ Step(MaxGameSteps)
    /\ \E c \in GameClients, sp \in SpawnPoints : PlayerPreferences(c, NoId, NoToken, sp)

ActGame ==
    /\ Step(MaxGameSteps)
    /\ \E c \in GameClients, a \in ActionKinds, o \in GameOffsets :
          PlayerAction(c, a, ownPosition(c)[1] + o[1], ownPosition(c)[2] + o[2],
                       ownSessionId(c), ownToken(c), 0, 0)

NextGame == JoinGame \/ ActGame

SpecGame == Init /\ [][NextGame]_vars

\* C11: no tile is both flagged and revealed, and a tile carries a flagged-by
\* player id exactly when it is flagged, after any flips, flags and explosions.
C11_FlaggedTilesStayCovered ==
    \A p \in Pos :
        /\ ~(tiles[p].flagged /\ tiles[p].revealed)
        /\ (tiles[p].flaggedBy # NoId) <=> tiles[p].flagged

\* the part of C11 the rules keep: flagged-by is set exactly on flagged tiles
FlaggedByIffFlagged ==
    \A p \in Pos : (tiles[p].flaggedBy # NoId) <=> tiles[p].flagged

\* C12: flaggedMines plus the number of laid mines that are not flagged equals
\* totalMines, the number of mines laid at world generation, after every flip,
\* flag and explosion.  A mine is counted where it was laid: a mine caught by
\* an explosion is still one of the mines laid.
C12_MineCountAccounting ==
    flaggedMines + Cardinality({m \in MineLayout : ~tiles[m].flagged}) = totalMines

C12_Witness ==
    /\ flaggedMines = 1
    /\ \E m \in MineLayout : tiles[m].flagged /\ tiles[m].exploded
    /\ \E m \in MineLayout : ~tiles[m].flagged /\ tiles[m].exploded
    /\ \E p \in Pos \ MineLayout : tiles[p].flagged

\* what the tile store itself says after an explosion: the tiles of kind mine
\* no longer add up to the cached counts, because a mine caught by an
\* explosion is stored with kind explosion
MineCountMatchesStore ==
    flaggedMines + Cardinality({p \in Pos : tiles[p].type = "mine" /\ ~tiles[p].flagged})
        = totalMines

\* C13: once flaggedMines has reached totalMines the game has ended, and the
\* game-end broadcast has been emitted exactly once, however many actions are
\* accepted afterwards.
C13_GameEndOnce ==
    /\ gameEnds <= 1
    /\ checkGameEnd(flaggedMines) <=> (gameEnds = 1)

\* the game end is announced by the step that reaches it
GameEndIsAnnounced ==
    flaggedMines >= totalMines => gameEnds >= 1

(***************************************************************************)
(* Rejections of the action pipeline.                                      *)
(***************************************************************************)
\* the step handles a player action of one of the kinds, by a known player
Handles(kinds) ==
    /\ steps' = steps + 1
    /\ last'.op = "action"
    /\ last'.action \in kinds
    /\ last'.playerId # NoId

WorldUnchanged ==
    /\ tiles' = tiles
    /\ players' = players
    /\ flaggedMines' = flaggedMines

\* C14: every unflag request is refused: it is reported as rejected, no
\* broadcast is derived from it, and no tile, player or counter changes.
C14_UnflagIsRefused ==
    [][Handles({"unflag"}) =>
        (~last'.ok /\ broadcasts' = {} /\ WorldUnchanged)]_vars

\* the part of C14 the rules keep: an unflag changes no tile, player or counter
UnflagChangesNothing ==
    [][Handles({"unflag"}) => WorldUnchanged]_vars

\* the target of the step's action is a tile of the world that is already
\* revealed or already flagged
TargetIsSettled ==
    /\ InWorld(last'.x, last'.y)
    /\ (tiles[<<last'.x, last'.y>>].revealed \/ tiles[<<last'.x, last'.y>>].flagged)

\* C15: a flip or flag whose target is already revealed or already flagged is
\* rejected (not reported as accepted, no tile-update broadcast) and changes
\* nothing.
C15_SettledTileIsRejected ==
    [][(Handles({"flip", "flag"}) /\ TargetIsSettled) =>
        (~last'.ok /\ "tile-update" \notin broadcasts' /\ WorldUnchanged)]_vars

\* the part of C15 the rules keep: such a flip or flag changes nothing
SettledTileIsUnchanged ==
    [][(Handles({"flip", "flag"}) /\ TargetIsSettled) => WorldUnchanged]_vars

\* C16: no flip, flag or unflag issued by a dead player is accepted, and none
\* changes a tile, a score, a flag inventory or the mine counter.
C16_DeadPlayersCannotAct ==
    [][(Handles(TileKinds) /\ ~players[last'.playerId].alive) =>
        (~last'.ok /\ WorldUnchanged)]_vars

C16_Witness ==
    /\ last.op = "action"
    /\ last.action = "flag"
    /\ ~last.ok
    /\ last.playerId \in PlayerIds
    /\ players[last.playerId].exists
    /\ ~players[last.playerId].alive
    /\ players[last.playerId].flags > 0
    /\ InWorld(last.x, last.y)
    /\ Chebyshev(last.x, last.y, last.px, last.py) = 1

(***************************************************************************)
(* Connections: clients disconnect, come back with the credentials of a    *)
(* session, and idle sessions are swept, while players walk and flip.      *)
(***************************************************************************)
MaxLifeSteps == 5
MaxLifeTicks == 1
LifeKinds == {"move", "flip"}
LifeOffsets == {<<1, 0>>, <<1, 1>>}
LifeTicks == {SessionTimeout + 1}
LifeSpawns == {<<0, 0>>}

\* variant of idleSessions that finds no session idle
idleSessionsNone(ps, t) == {}

\* the entries of playerSessions the sweep running at time t finds idle
idleSessions(ps, t) == {i \in 1 .. Len(ps) : t - ps[i].lastSeen > SessionTimeout}

\* client.on('disconnect'): the player of the client's session is marked
\* disconnected; the session and the player stay
Disconnect(client) ==
    LET i == findSession(playerSessions, client)
        playerId == playerSessions[i].playerId
    IN  /\ players' = IF i # 0 /\ players[playerId].exists
                      THEN [players EXCEPT ![playerId].connected = FALSE]
                      ELSE players
        /\ last' = [Event("disconnect") EXCEPT !.client = client]
        /\ broadcasts' = {}
        /\ outbox' = <<>>
        /\ UNCHANGED <<tiles, flaggedMines, securityVars, connectionVars, now,
                       admitted, viewport, gameEnds, config, timers, explosions, actionHistory, playerDataCache>>

\* the session sweep: every session not seen for more than TIMEOUT loses its
\* player and is deleted
SweepAt(t) ==
    LET idle == idleSessions(playerSessions, t)
        gone == {playerSessions[i].playerId : i \in idle}
        kept(e) == \A i \in idle : playerSessions[i] # e
    IN  /\ players' = [q \in PlayerIds |->
                          IF q \in gone THEN removePlayer(players, q)[q]
                          ELSE players[q]]
        /\ playerDataCache' = [q \in PlayerIds |->
                          IF q \in gone /\ players[q].exists THEN NoPlayer
                          ELSE playerDataCache[q]]
        /\ playerSessions' = SelectSeq(playerSessions, kept)
        /\ last' = Event("sweep")
        /\ broadcasts' = {}
        /\ outbox' = <<>>
        /\ UNCHANGED <<tiles, flaggedMines, securityVars, nextPlayerId,
                       nextSessionId, admitted, viewport, gameEnds, config, timers, explosions,
                       actionHistory>>

SweepSessions == SweepAt(now) /\ now' = now

\* a client without credentials is one the server holds no session for
JoinLife ==
    /\ Step(MaxLifeSteps)
    /\ \E c \in {d \in Clients : findSession(playerSessions, d) = 0}, sp \in LifeSpawns :
          PlayerPreferences(c, NoId, NoToken, sp)

ReconnectLife ==
    /\ Step(MaxLifeSteps)
    /\ \E c \in Clients, sp \in LifeSpawns :
         \E sid \in {t \in SessionIds : sessions[t].present} :
            PlayerPreferences(c, sid, sessions[sid].token, sp)

ActLife ==
    /\ Step(MaxLifeSteps)
    /\ \E c \in Clients, a \in LifeKinds, o \in LifeOffsets :
          PlayerAction(c, a, ownPosition(c)[1] + o[1], ownPosition(c)[2] + o[2],
                       ownSessionId(c), ownToken(c), 0, 0)

DisconnectLife == Step(MaxLifeSteps) /\ \E c \in Clients : Disconnect(c)

SweepLife == Step(MaxLifeSteps) /\ SweepSessions

TickLife ==
    /\ Step(MaxLifeSteps)
    /\ now < MaxLifeTicks * (SessionTimeout + 1)
    /\ \E d \in LifeTicks : Tick(d)

NextLife ==
    \/ JoinLife
    \/ ReconnectLife
    \/ ActLife
    \/ DisconnectLife
    \/ SweepLife
    \/ TickLife

SpecLife == Init /\ [][NextLife]_vars

\* C17: once a player's alive flag has become false it never becomes true
\* again for that player id, across disconnects, reconnections and sweeps,
\* while the connected flag may go down and up again.
C17_DeadIsTerminal ==
    [][\A q \in PlayerIds :
          (q < nextPlayerId /\ ~players[q].alive) => ~players'[q].alive]_vars

C17_Witness ==
    /\ last.op = "reconnect"
    /\ last.playerId \in PlayerIds
    /\ players[last.playerId].exists
    /\ ~players[last.playerId].alive
    /\ players[last.playerId].connected
    /\ players[last.playerId].clientId # last.client

\* C24: when a connection presents the session id and valid token of a player
\* who has not been removed, the same player record is restored (same id,
\* position, score, flags and alive status) with connected true, no player is
\* created, and the session-assigned reply carries the same session id with
\* isReconnection true.
C24_ReconnectRestoresPlayer ==
    [][\A p \in PlayerIds :
          (/\ steps' = steps + 1
           /\ last'.op \in {"join", "reconnect"}
           /\ CredentialsValidFor(last'.sessionId, last'.token, p)
           /\ players[p].exists)
          => (/\ last'.op = "reconnect"
              /\ last'.playerId = p
              /\ players' = [players EXCEPT ![p].connected = TRUE]
              /\ players'[p].connected
              /\ nextPlayerId' = nextPlayerId
              /\ \E i \in 1 .. Len(outbox') :
                    outbox'[i] = Message("session-assigned", last'.client, NoId,
                                         <<>>, last'.sessionId, TRUE))]_vars

C24_Witness ==
    /\ last.op = "reconnect"
    /\ last.playerId \in PlayerIds
    /\ players[last.playerId].connected
    /\ players[last.playerId].alive
    /\ players[last.playerId].score > 0
    /\ players[last.playerId].x # 0
    /\ players[last.playerId].clientId # last.client
    /\ outbox[1].channel = "session-assigned"
    /\ outbox[1].isReconnection
    /\ outbox[1].sessionId = last.sessionId

Walkable(p) == (tiles[p].revealed /\ tiles[p].type # "mine") \/ tiles[p].flagged

\* C19: every player stands inside the world and on a walkable tile, also
\* after explosions and other players' actions changed the tiles under and
\* around the player.
C19_PlayersStandOnWalkableTiles ==
    \A q \in PlayerIds :
        players[q].exists =>
            /\ InWorld(players[q].x, players[q].y)
            /\ Walkable(<<players[q].x, players[q].y>>)

C19_Witness ==
    /\ Accepted({"flip"})
    /\ tiles[<<players[last.playerId].x, players[last.playerId].y>>].type = "explosion"
    /\ \E q \in PlayerIds \ {last.playerId} :
          /\ players[q].exists
          /\ players[q].alive
          /\ \E p \in Pos : /\ Chebyshev(p[1], p[2], players[q].x, players[q].y) = 1
                             /\ tiles[p].type = "explosion"

(***************************************************************************)
(* The flag inventory: one client flags and walks until its flags run out. *)
(***************************************************************************)
MaxFlagSteps == 17
FlagClients == {"c1"}
FlagSpawns == {<<0, 0>>}
FlagKinds == {"flag", "move"}
FlagOffsets == {<<1, 0>>, <<0, 1>>}

\* the client joins once
JoinFlags ==
    /\ Step(MaxFlagSteps)
    /\ \E c \in {d \in FlagClients : findSession(playerSessions, d) = 0}, sp \in FlagSpawns :
          PlayerPreferences(c, NoId, NoToken, sp)

ActFlags ==
    /\ Step(MaxFlagSteps)
    /\ \E c \in FlagClients, a \in FlagKinds, o \in FlagOffsets :
          PlayerAction(c, a, ownPosition(c)[1] + o[1], ownPosition(c)[2] + o[2],
                       ownSessionId(c), ownToken(c), 0, 0)

NextFlags == JoinFlags \/ ActFlags

SpecFlags == Init /\ [][NextFlags]_vars

\* C20: every player's score and flag inventory are at least 0 at all times,
\* and a flag action by a player holding zero flags is rejected and leaves
\* the inventory at 0.
C20_ScoreAndFlagsNonNegative ==
    [][/\ \A q \in PlayerIds : players'[q].score >= 0 /\ players'[q].flags >= 0
       /\ (Handles({"flag"}) /\ players[last'.playerId].flags = 0) =>
             (/\ ~last'.ok
              /\ players'[last'.playerId].flags = 0
              /\ tiles' = tiles)]_vars

C20_Witness ==
    /\ last.op = "action"
    /\ last.action = "flag"
    /\ ~last.ok
    /\ last.playerId \in PlayerIds
    /\ players[last.playerId].alive
    /\ players[last.playerId].flags = 0
    /\ InWorld(last.x, last.y)
    /\ Chebyshev(last.x, last.y, last.px, last.py) = 1
    /\ ~tiles[<<last.x, last.y>>].revealed
    /\ ~tiles[<<last.x, last.y>>].flagged

(***************************************************************************)
(* Properties of the messages a handler writes.                            *)
(***************************************************************************)
\* the positions in the outbox of the messages on a channel
onChannel(channel) == {i \in 1 .. Len(outbox) : outbox[i].channel = channel}

\* C27: for every accepted action the acting client's viewport-update is
\* written before every broadcast of that action, and the tile-update before
\* the leaderboard-update.
C27_ViewportUpdateFirst ==
    (last.op = "action" /\ last.ok) =>
        /\ onChannel("viewport-update") # {}
        /\ \A v \in onChannel("viewport-update") :
              \A i \in 1 .. Len(outbox) :
                  outbox[i].channel # "viewport-update" => v < i
        /\ \A t \in onChannel("tile-update") :
              \A l \in onChannel("leaderboard-update") : t < l

\* what of the order does hold: an accepted action that sets off no mine
\* writes viewport-update first and tile-update before leaderboard-update
OrderWithoutExplosion ==
    (last.op = "action" /\ last.ok /\ onChannel("explosion") = {}) =>
        /\ outbox[1].channel = "viewport-update"
        /\ \A t \in onChannel("tile-update") :
              \A l \in onChannel("leaderboard-update") : t < l

\* C28: a viewport-update written for a player's action is delivered to that
\* player's own connection and to no other.
C28_ViewportUpdateIsUnicast ==
    last.op = "action" =>
        \A v \in onChannel("viewport-update") : outbox[v].to = last.client

\* what does hold: every viewport-update names the acting player as its target
ViewportUpdateNamesTarget ==
    last.op = "action" =>
        \A v \in onChannel("viewport-update") :
            outbox[v].to = "all" /\ outbox[v].targetPlayerId = last.playerId

\* C29: every leaderboard-update lists exactly the players whose score is
\* greater than 0, in non-increasing order of score.
C29_LeaderboardFilteredAndSorted ==
    \A l \in onChannel("leaderboard-update") :
        LET listed == outbox[l].players
        IN  /\ {listed[j].id : j \in 1 .. Len(listed)} =
                   {q \in PlayerIds : players[q].exists /\ players[q].score > 0}
            /\ \A j \in 1 .. Len(listed) - 1 :
                  listed[j].score >= listed[j + 1].score

\* what does hold: the list is in the order the players were created, and
\* holds the cached players that are connected and have scored
LeaderboardInCreationOrder ==
    \A l \in onChannel("leaderboard-update") :
        LET listed == outbox[l].players
        IN  /\ \A j \in 1 .. Len(listed) - 1 : listed[j].id < listed[j + 1].id
            /\ {listed[j].id : j \in 1 .. Len(listed)} =
                   {q \in PlayerIds : /\ playerDataCache[q].exists
                                      /\ playerDataCache[q].connected
                                      /\ playerDataCache[q].score > 0}

(***************************************************************************)
(* Expiry of sessions: the SessionManager as the server drives it, which   *)
(* creates and validates sessions and never refreshes one, while time      *)
(* passes by an idle period or by a whole session lifetime.                *)
(***************************************************************************)
MaxExpirySteps == 5
ExpiryTicks == {SessionTimeout + 1, SESSION_DURATION}

ExpiryCreate == Step(MaxExpirySteps) /\ \E p \in PlayerIds : CreateSessionCall(p)

ExpiryValidate ==
    /\ Step(MaxExpirySteps)
    /\ \E sid \in SessionIds :
          \E tok \in {sessions[sid].token, NoToken} : ValidateSessionCall(sid, tok)

ExpiryTick == Step(MaxExpirySteps) /\ \E d \in ExpiryTicks : Tick(d)

NextExpiry == ExpiryCreate \/ ExpiryValidate \/ ExpiryTick

SpecExpiry == Init /\ [][NextExpiry]_vars

\* the step validates a session the manager holds
ValidatesHeld(sid) ==
    /\ steps' = steps + 1
    /\ last'.op = "validateSession"
    /\ last'.sessionId = sid
    /\ sessions[sid].present

\* C23: a session is expired once 24 h have elapsed since its creation or
\* 30 s since its last activity, whichever comes first: every validate call
\* for it after that instant returns invalid.
C23_ExpiredSessionIsInvalid ==
    [][\A sid \in SessionIds :
          (/\ ValidatesHeld(sid)
           /\ \/ now > sessions[sid].createdAt + SESSION_DURATION
              \/ now > sessions[sid].lastActivity + SessionTimeout)
          => ~last'.ok]_vars

\* what does hold: a session validates with its token up to 24 h after its
\* creation, however long it was idle, and never later
AbsoluteExpiryOnly ==
    [][\A sid \in SessionIds :
          (ValidatesHeld(sid) /\ last'.token = sessions[sid].token)
          => (last'.ok <=> now <= sessions[sid].createdAt + SESSION_DURATION)]_vars

(***************************************************************************)
(* The pipeline on its own: the SecurityManager under each configuration,  *)
(* asked to validate actions of players who stand at the origin, while     *)
(* sessions are created, players are banned and unbanned, and time passes. *)
(***************************************************************************)
MaxPipelineSteps == 4
PipelineKinds == {"move", "flip"}
PipelineTargets == {<<1, 0>>, <<3, 0>>}
PipelineTicks == {50, 150}

InitPipeline == \E cfg \in Configs : InitWith(cfg)

ValidateActionCall(playerId, sessionId, token, actionType, x, y, px, py, playerAlive) ==
    \E v \in {validatePlayerAction(security, playerId, sessionId, token,
                                   actionType, x, y, px, py, playerAlive, now)} :
        /\ sessions' = v.sec.sessions
        /\ histories' = v.sec.histories
        /\ actionHistory' = v.sec.actionHistory
        /\ last' = [Request("validateAction", "none", playerId, actionType,
                            x, y, px, py, sessionId, token, v.allowed)
                       EXCEPT !.reason = v.reason,
                              !.shouldDisconnect = v.shouldDisconnect,
                              !.alive = playerAlive]
        /\ broadcasts' = {}
        /\ outbox' = <<>>
        /\ UNCHANGED <<gameVars, banned, connectionVars, now, admitted, viewport,
                       gameEnds, config, timers, explosions, playerDataCache>>

BanCall(playerId) ==
    \E sec \in {banPlayer(security, playerId)} :
        /\ banned' = sec.banned
        /\ sessions' = sec.sessions
        /\ last' = [Event("ban") EXCEPT !.playerId = playerId]
        /\ broadcasts' = {}
        /\ outbox' = <<>>
        /\ UNCHANGED <<gameVars, histories, connectionVars, now, admitted,
                       viewport, gameEnds, config, timers, explosions, actionHistory, playerDataCache>>

UnbanCall(playerId) ==
    \E sec \in {unbanPlayer(security, playerId)} :
        /\ banned' = sec.banned
        /\ last' = [Event("unban") EXCEPT !.playerId = playerId]
        /\ broadcasts' = {}
        /\ outbox' = <<>>
        /\ UNCHANGED <<gameVars, sessions, histories, connectionVars, now,
                       admitted, viewport, gameEnds, config, timers, explosions, actionHistory,
                       playerDataCache>>

PipelineCreate ==
    Step(MaxPipelineSteps) /\ \E p \in PlayerIds : CreateSessionCall(p)

PipelineValidate ==
    /\ Step(MaxPipelineSteps)
    /\ \E p \in PlayerIds, sid \in SessionIds, a \in PipelineKinds :
          \E t \in PipelineTargets, alive \in BOOLEAN :
              ValidateActionCall(p, sid, sessions[sid].token, a,
                                 t[1], t[2], 0, 0, alive)

PipelineBan == Step(MaxPipelineSteps) /\ \E p \in PlayerIds : BanCall(p)

PipelineUnban == Step(MaxPipelineSteps) /\ \E p \in banned : UnbanCall(p)

PipelineTick == Step(MaxPipelineSteps) /\ \E d \in PipelineTicks : Tick(d)

NextPipeline ==
    \/ PipelineCreate
    \/ PipelineValidate
    \/ PipelineBan
    \/ PipelineUnban
    \/ PipelineTick

SpecPipeline == InitPipeline /\ [][NextPipeline]_vars

\* the step asks the pipeline to validate an action
Validates == steps' = steps + 1 /\ last'.op = "validateAction"

\* what each check of the pipeline finds wrong with the action being
\* validated, read from the state before the step
FailsBan == last'.playerId \in banned

FailsAlive == ~last'.alive /\ last'.action # "move"

FailsSession ==
    /\ config.enableSessionSecurity
    /\ ~CredentialsValidFor(last'.sessionId, last'.token, last'.playerId)

FailsRate ==
    LET inWindow(r) == r.timestamp >= now - WindowMs
        ofKind(r) == inWindow(r) /\ r.action = last'.action
    IN  /\ config.enableRateLimiting
        /\ \/ Len(SelectSeq(histories[last'.playerId], ofKind))
                  >= maxActions(last'.action)
           \/ Len(SelectSeq(histories[last'.playerId], inWindow)) >= MaxGeneral

FailsGeometry ==
    /\ config.enableBehaviorValidation
    /\ \/ Abs(last'.x - last'.px) > 1
       \/ Abs(last'.y - last'.py) > 1

SessionReasons == {"Invalid session", "Session player mismatch"}
ReplayReasons ==
    {"Action replay detected", "Duplicate action",
     "Too many actions in short timespan", "Detected flag/unflag spam pattern"}
GeometryReasons ==
    {"Can only move to adjacent tiles", "Can only interact with nearby tiles"}

SessionRejectionHappens ==
    /\ last.op = "validateAction"
    /\ last.reason = "Session player mismatch"
    /\ Abs(last.x - last.px) > 1
    /\ histories[last.playerId] = <<>>

GeometryRejectionHappens ==
    /\ last.op = "validateAction"
    /\ last.reason \in GeometryReasons
    /\ histories[last.playerId] # <<>>

\* C22: while a player id is in the ban set every action carrying it is
\* rejected with a disconnect indication; the ban removes every session bound
\* to the player id, and a removed session never validates again.
C22_BanRejectsAndInvalidates ==
    [][
        /\ (Validates /\ last'.playerId \in banned) =>
              /\ ~last'.ok
              /\ last'.shouldDisconnect
        /\ (steps' = steps + 1 /\ last'.op = "ban") =>
              /\ last'.playerId \in banned'
              /\ \A sid \in SessionIds :
                    sessions[sid].playerId = last'.playerId
                        => ~sessions'[sid].present
        /\ \A sid \in SessionIds :
              (sid < nextSessionId /\ ~sessions[sid].present)
                  => ~sessions'[sid].present
        /\ \A p \in PlayerIds :
              (p \in banned /\ p \notin banned')
                  => (last'.op = "unban" /\ last'.playerId = p)]_vars

\* a banned player's action, presented with the session the player held when
\* banned and the token that session had, has been rejected
C22_Witness ==
    /\ last.op = "validateAction"
    /\ last.playerId \in banned
    /\ ~last.ok
    /\ last.shouldDisconnect
    /\ last.sessionId \in SessionIds
    /\ last.sessionId < nextSessionId
    /\ ~sessions[last.sessionId].present
    /\ Abs(last.x - last.px) <= 1

\* after the unban the player's actions pass the ban check again
UnbannedIsCheckedFurther ==
    /\ last.op = "validateAction"
    /\ last.playerId \notin banned
    /\ last.sessionId < nextSessionId
    /\ ~sessions[last.sessionId].present
    /\ last.reason = "Invalid session"

\* the action being validated reaches the replay guard
ReachesReplayGuard ==
    /\ Validates
    /\ config.enableReplayProtection
    /\ ~FailsBan /\ ~FailsAlive /\ ~FailsSession /\ ~FailsRate

\* the signatures the replay guard holds of the action being validated
Recorded ==
    {i \in 1 .. Len(actionHistory) :
        /\ actionHistory[i].playerId = last'.playerId
        /\ actionHistory[i].actionType = last'.action
        /\ actionHistory[i].x = last'.x
        /\ actionHistory[i].y = last'.y}

\* C30: with replay protection enabled the first submission of an action by
\* a player is allowed (when nothing else is wrong with it), and an identical
\* action submitted again within 100 ms is rejected as a replay or duplicate.
C30_FirstAllowedThenReplayRejected ==
    [][ReachesReplayGuard =>
        /\ (Recorded = {} /\ ~FailsGeometry) => last'.ok
        /\ (\E i \in Recorded : now - actionHistory[i].timestamp < ReplayWindowMs)
              => (~last'.ok /\ last'.reason \in ReplayReasons)]_vars

\* what does hold: the replay guard rejects every action that reaches it, the
\* first submission as a duplicate of the signature just recorded for it
ReplayGuardRejectsAll ==
    [][ReachesReplayGuard =>
        /\ ~last'.ok
        /\ last'.reason \in {"Action replay detected", "Duplicate action"}
        /\ Recorded = {} => last'.reason = "Duplicate action"
        /\ (\E i \in Recorded : now - actionHistory[i].timestamp < ReplayWindowMs)
              => last'.reason = "Action replay detected"]_vars

(***************************************************************************)
(* The session sweep in time: the clock advances in steps and the sweep    *)
(* runs whenever a whole period has passed, while clients join, act with   *)
(* their own or another session's credentials, disconnect and reconnect.   *)
(* The clock is followed as long as the server holds a session to sweep.   *)
(***************************************************************************)
MaxSweepSteps == 3
ClockStep == SweepPeriod \div 2
SweepKinds == {"flip"}
SweepOffsets == {<<1, 0>>}
SweepSpawns == {<<0, 0>>}

JoinSweep ==
    /\ Step(MaxSweepSteps)
    /\ \E c \in {d \in Clients : findSession(playerSessions, d) = 0}, sp \in SweepSpawns :
          PlayerPreferences(c, NoId, NoToken, sp)

ReconnectSweep ==
    /\ Step(MaxSweepSteps)
    /\ \E c \in Clients, sp \in SweepSpawns :
         \E sid \in {t \in SessionIds : sessions[t].present} :
            PlayerPreferences(c, sid, sessions[sid].token, sp)

ActSweep ==
    /\ Step(MaxSweepSteps)
    /\ \E c \in Clients, a \in SweepKinds, o \in SweepOffsets :
         \E sid \in {t \in SessionIds : sessions[t].present} :
            PlayerAction(c, a, ownPosition(c)[1] + o[1], ownPosition(c)[2] + o[2],
                         sid, sessions[sid].token, 0, 0)

DisconnectSweep ==
    /\ Step(MaxSweepSteps)
    /\ \E c \in {d \in Clients : findSession(playerSessions, d) # 0} : Disconnect(c)

\* the clock moves on; the interval's callback runs when its period is over
AdvanceSweep ==
    /\ playerSessions # <<>>
    /\ now' = now + ClockStep
    /\ steps' = steps
    /\ IF now' % SweepPeriod = 0
       THEN SweepAt(now')
       ELSE /\ last' = Event("tick")
            /\ broadcasts' = {}
            /\ outbox' = <<>>
            /\ UNCHANGED <<gameVars, securityVars, connectionVars, admitted,
                           viewport, gameEnds, config, timers, explosions, actionHistory,
                           playerDataCache>>

NextSweep ==
    \/ JoinSweep
    \/ ReconnectSweep
    \/ ActSweep
    \/ DisconnectSweep
    \/ AdvanceSweep

SpecSweep == Init /\ [][NextSweep]_vars

\* time passes and the interval fires, whatever the clients do
SpecSweepLive == SpecSweep /\ WF_vars(AdvanceSweep)

\* the player was created and has since been removed from the registry
Evicted(q) == q \in PlayerIds /\ q < nextPlayerId /\ ~players[q].exists

\* the entries of playerSessions that belong to a player
entriesOf(q) == {i \in 1 .. Len(playerSessions) : playerSessions[i].playerId = q}

\* a disconnect leaves the record of the client's player as it was, but for
\* connected, which is false afterwards
DisconnectKeepsRecord ==
    (steps' = steps + 1 /\ last'.op = "disconnect") =>
        LET i == findSession(playerSessions, last'.client)
            q == playerSessions[i].playerId
        IN  /\ i # 0
            /\ players[q].exists
            /\ players' = [players EXCEPT ![q].connected = FALSE]
            /\ ~players'[q].connected
            /\ playerSessions' = playerSessions

\* every player in the registry was seen within the timeout and one period
SeenOrSwept ==
    \A q \in PlayerIds :
        players[q].exists =>
            \E i \in entriesOf(q) :
                now - playerSessions[i].lastSeen <= SessionTimeout + SweepPeriod

\* a disconnected player is eventually removed, if it does not reconnect and
\* sends no action
Removed(q) ==
    (players[q].exists /\ ~players[q].connected)
        ~> \/ ~players[q].exists
           \/ players[q].connected
           \/ (last.op = "action" /\ last.playerId = q)

\* C25: after a disconnect the player record is kept intact with connected
\* false, and a player who never reconnects and sends no further action is
\* eventually removed from the registry by the sweep, no later than one
\* period (10 s) after 30 s of inactivity.
C25_DisconnectedIsKeptThenSwept ==
    /\ [][DisconnectKeepsRecord]_vars
    /\ []SeenOrSwept
    /\ \A q \in PlayerIds : Removed(q)

\* the sweep has just removed a player who had scored and disconnected, the
\* only player it found idle
C25_Witness ==
    /\ last.op = "sweep"
    /\ Evicted(1)
    /\ playerDataCache[1] = NoPlayer
    /\ sessions[1].present
    /\ players[2].exists
    /\ steps = MaxSweepSteps

\* C26: after the sweep has evicted a player's session no later action for
\* that player id is accepted or changes the world, whether it arrives on the
\* old connection or with the old credentials; the player id stays removed.
C26_EvictedPlayerCannotAct ==
    [][
        /\ (/\ steps' = steps + 1
            /\ last'.op = "action"
            /\ \/ \A i \in 1 .. Len(playerSessions) :
                      playerSessions[i].clientId # last'.client
               \/ /\ last'.sessionId \in SessionIds
                  /\ sessions[last'.sessionId].present
                  /\ Evicted(sessions[last'.sessionId].playerId))
           => (~last'.ok /\ WorldUnchanged)
        /\ (steps' = steps + 1 /\ last'.op = "action" /\ last'.ok)
           => (last'.playerId \in PlayerIds /\ ~Evicted(last'.playerId))
        /\ \A q \in PlayerIds : Evicted(q) => ~players'[q].exists]_vars

\* a client whose player is still in the game has sent an action with the
\* credentials of an evicted player, and was refused
C26_Witness ==
    /\ last.op = "action"
    /\ ~last.ok
    /\ last.playerId \in PlayerIds
    /\ players[last.playerId].exists
    /\ last.sessionId \in SessionIds
    /\ sessions[last.sessionId].present
    /\ Evicted(sessions[last.sessionId].playerId)

\* an action has arrived on the connection of an evicted player
OldConnectionHappens ==
    /\ last.op = "action"
    /\ last.playerId = NoId
    /\ ~last.ok
    /\ \E q \in PlayerIds : Evicted(q) /\ players[3 - q].exists

(***************************************************************************)
(* World generation step by step: the constructor creates the spawn tiles, *)
(* draws positions until the mines and the flag tokens are placed, and     *)
(* fills the rest of the world.                                            *)
(***************************************************************************)
InitGenerate == InitState(ServerConfig, spawnTiles)

Generating(op, tileMap) ==
    /\ tiles' = tileMap
    /\ last' = Event(op)
    /\ UNCHANGED <<players, flaggedMines, securityVars, connectionVars, now,
                   admitted, viewport, broadcasts, gameEnds, config, timers, explosions,
                   actionHistory, playerDataCache, outbox, steps>>

PlaceMine ==
    /\ last.op \in {"init", "mine"}
    /\ minesPlaced(tiles) < MINE_COUNT
    /\ \E x \in Coord, y \in Coord : Generating("mine", placeMine(tiles, x, y))

PlaceFlagToken ==
    /\ last.op \in {"init", "mine", "flag_token"}
    /\ minesPlaced(tiles) = MINE_COUNT
    /\ flagTokensPlaced(tiles) < FLAG_TOKEN_COUNT
    /\ \E x \in Coord, y \in Coord :
          Generating("flag_token", placeFlagToken(tiles, x, y))

CalculateNumbers ==
    /\ last.op \in {"init", "mine", "flag_token"}
    /\ minesPlaced(tiles) = MINE_COUNT
    /\ flagTokensPlaced(tiles) = FLAG_TOKEN_COUNT
    /\ Generating("generated", calculateNumbers(tiles))

NextGenerate ==
    \/ PlaceMine
    \/ PlaceFlagToken
    \/ CalculateNumbers

SpecGenerate == InitGenerate /\ [][NextGenerate]_vars

Generated == last.op = "generated"

minesOf == {p \in Pos : tiles[p].type = "mine"}

\* C31: after world generation no mine lies on a spawn point or within
\* Manhattan distance 2 of a spawn point, whatever positions were drawn.
C31_NoMineNearSpawn ==
    Generated =>
        \A m \in minesOf : \A s \in SpawnPoints :
            m # s /\ Manhattan(m[1], m[2], s[1], s[2]) > NearSpawnDistance

\* the generated world has all its mines, one of them at distance 3 of a
\* spawn point
C31_Witness ==
    /\ Generated
    /\ Cardinality(minesOf) = MINE_COUNT
    /\ \E m \in minesOf : \E s \in SpawnPoints :
          Manhattan(m[1], m[2], s[1], s[2]) = NearSpawnDistance + 1

\* the world the server specifications start from is one the generator builds
FixedWorldIsGenerated == Generated /\ tiles = generateWorld(MineLayout, TokenLayout)

\* the mines among the eight neighbours of a position, inside the world
minesAround(p) ==
    Cardinality({m \in minesOf :
        /\ m # p
        /\ Abs(m[1] - p[1]) <= 1
        /\ Abs(m[2] - p[2]) <= 1})

\* C32: after world generation every numbered tile carries a number between
\* 1 and 8 that is the count of the mines among its eight neighbours, and
\* every other position that is no mine, no flag token and no spawn point
\* and has no mine around it is empty.
C32_NumbersCountMines ==
    Generated =>
        \A p \in Pos :
            /\ tiles[p].type = "numbered" =>
                  /\ tiles[p].number >= 1
                  /\ tiles[p].number <= 8
                  /\ tiles[p].number = minesAround(p)
            /\ (/\ tiles[p].type \notin {"mine", "flag_token"}
                /\ p \notin SpawnPoints
                /\ minesAround(p) = 0) => tiles[p].type = "empty"
            /\ tiles[p].type # "none"

\* a generated world with a tile between two mines, a covered empty tile
\* and a flag token next to a mine
C32_Witness ==
    /\ Generated
    /\ \E p \in Pos : tiles[p].type = "numbered" /\ tiles[p].number = 2
    /\ \E p \in Pos : tiles[p].type = "empty" /\ ~tiles[p].revealed
    /\ \E p \in Pos : tiles[p].type = "flag_token" /\ minesAround(p) > 0

(***************************************************************************)
(* The security dashboard endpoint.  process.env.ADMIN_KEY is part of the  *)
(* configuration the process is started with; it and the adminKey of a     *)
(* request are optional values.                                            *)
(***************************************************************************)
AdminKeys == {Undefined, Defined("secret")}
RequestKeys == {Undefined, Defined("secret"), Defined("guess")}

\* the configuration of the server together with its environment
Environment(cfg, adminKey) ==
    [enableRateLimiting |-> cfg.enableRateLimiting,
     enableBehaviorValidation |-> cfg.enableBehaviorValidation,
     enableSessionSecurity |-> cfg.enableSessionSecurity,
     enableReplayProtection |-> cfg.enableReplayProtection,
     ADMIN_KEY |-> adminKey]

InitDashboard ==
    \E key \in AdminKeys :
        /\ LayoutValid
        /\ InitState(Environment(ServerConfig, key),
                     generateWorld(MineLayout, TokenLayout))

\* client.subscribe('security-dashboard'): data.adminKey === process.env.ADMIN_KEY
SecurityDashboard(client, adminKey) ==
    LET granted == adminKey = config.ADMIN_KEY
    IN  /\ outbox' = IF granted
                     THEN <<Message("security-dashboard-data", client, NoId,
                                    <<>>, NoId, FALSE)>>
                     ELSE <<>>
        /\ last' = [Request("security-dashboard", client, NoId, "none", 0, 0, 0, 0,
                            NoId, NoToken, granted) EXCEPT !.token = adminKey]
        /\ broadcasts' = {}
        /\ UNCHANGED <<gameVars, securityVars, connectionVars, now, admitted,
                       viewport, gameEnds, config, timers, explosions, actionHistory, playerDataCache>>

DashboardRequest ==
    /\ Step(MaxSteps)
    /\ \E c \in Clients, k \in RequestKeys : SecurityDashboard(c, k)

DashboardBan ==
    /\ Step(MaxSteps)
    /\ \E p \in PlayerIds : BanCall(p)

NextDashboard ==
    \/ Join
    \/ DashboardRequest
    \/ DashboardBan

SpecDashboard == InitDashboard /\ [][NextDashboard]_vars

DashboardAsked == last.op = "security-dashboard"
DashboardSent ==
    \E i \in 1 .. Len(outbox) : outbox[i].channel = "security-dashboard-data"

\* C33: dashboard data is sent in reply to a security-dashboard request only
\* if the request carries an adminKey equal to the configured ADMIN_KEY; a
\* request that carries no adminKey never receives dashboard data, whether
\* or not ADMIN_KEY is configured.
C33_DashboardNeedsAdminKey ==
    /\ DashboardSent => /\ DashboardAsked
                        /\ last.token # Undefined
                        /\ last.token = config.ADMIN_KEY
    /\ (DashboardAsked /\ last.token = Undefined) => ~DashboardSent

\* dashboard data is sent only in reply to a request whose adminKey is the
\* same value as process.env.ADMIN_KEY, and only to the asking client
DashboardOnEqualKeysOnly ==
    /\ DashboardSent <=> (DashboardAsked /\ last.token = config.ADMIN_KEY)
    /\ \A i \in 1 .. Len(outbox) :
          outbox[i].channel = "security-dashboard-data" => outbox[i].to = last.client

\* with ADMIN_KEY configured, a request without adminKey or with another
\* key gets nothing
ConfiguredKeyGates ==
    (DashboardAsked /\ config.ADMIN_KEY # Undefined /\ last.token # config.ADMIN_KEY)
        => ~DashboardSent

(***************************************************************************)
(* The cached copy of the players against the player components.          *)
(***************************************************************************)
\* C34: after every handled event (welcome, reconnect, accepted action,
\* explosion, disconnect, eviction) the cached flat record of every player
\* equals the live record in all fields, including the connected flag.
C34_CacheEqualsLive ==
    \A q \in PlayerIds : playerDataCache[q] = players[q]

\* the cached copy differs from the component in the connected flag at most
CacheStaleInConnectedOnly ==
    \A q \in PlayerIds :
        playerDataCache[q] = [players[q] EXCEPT !.connected = playerDataCache[q].connected]

(***************************************************************************)
(* Rejected requests.                                                      *)
(***************************************************************************)
\* C35: every action the game entry points report as rejected leaves all
\* tiles, every player's position, score, flag inventory and alive flag,
\* and the mine counter exactly as they were before the request.
C35_RejectedActionChangesNothing ==
    [][(steps' = steps + 1 /\ last'.op = "action" /\ ~last'.ok) => WorldUnchanged]_vars

\* a player who has scored and is alive was refused a step onto a covered
\* tile next to it
C35_Witness ==
    /\ last.op = "action"
    /\ ~last.ok
    /\ last.action = "move"
    /\ last.playerId \in PlayerIds
    /\ players[last.playerId].alive
    /\ players[last.playerId].score > 0
    /\ InWorld(last.x, last.y)
    /\ isAdjacentMove(players[last.playerId].x, players[last.playerId].y, last.x, last.y)
    /\ ~tiles[<<last.x, last.y>>].revealed

\* a flag was refused because the player has no flag left
FlagRefusedForNoFlags ==
    /\ last.op = "action"
    /\ ~last.ok
    /\ last.action = "flag"
    /\ last.playerId \in PlayerIds
    /\ players[last.playerId].alive
    /\ players[last.playerId].flags = 0

(***************************************************************************)
(* Two players in one world: both join at the same spawn point and act in  *)
(* any order.                                                              *)
(***************************************************************************)
MaxPairSteps == 6
PairSpawns == {<<0, 0>>}
PairKinds == {"flip", "flag", "move"}
PairOffsets == {<<1, 0>>, <<1, 1>>}

JoinPair ==
    /\ Step(MaxPairSteps)
    /\ \E c \in {d \in Clients : findSession(playerSessions, d) = 0}, sp \in PairSpawns :
          PlayerPreferences(c, NoId, NoToken, sp)

ActPair ==
    /\ Step(MaxPairSteps)
    /\ \E c \in Clients, a \in PairKinds, o \in PairOffsets :
          PlayerAction(c, a, ownPosition(c)[1] + o[1], ownPosition(c)[2] + o[2],
                       ownSessionId(c), ownToken(c), 0, 0)

NextPair == JoinPair \/ ActPair

SpecPair == Init /\ [][NextPair]_vars

\* a mine of the world has been revealed, by a flip or by an explosion,
\* without a flag on it
LostMine == \E p \in MineLayout : tiles[p].revealed /\ ~tiles[p].flagged

LastUnflaggedMineLost ==
    /\ LostMine
    /\ flaggedMines = totalMines - 1
    /\ \A p \in MineLayout : tiles[p].revealed

\* the game does end in runs that lose no mine
GameEndHappens == ~LostMine /\ checkGameEnd(flaggedMines) /\ "game-end" \in broadcasts

\* score and flag inventory of a player are what they were
SameCredit(q) ==
    /\ players'[q].score = players[q].score
    /\ players'[q].flags = players[q].flags

\* C37: if two players each submit a flip for the same covered tile, the
\* reveal is credited to exactly one of them: whatever the order in which
\* the two requests are handled, the later one adds nothing to any score or
\* flag inventory and the tile is revealed once.
C37_RevealIsCreditedOnce ==
    [][
        /\ (Handles({"flip"}) /\ InWorld(last'.x, last'.y)
                /\ tiles[<<last'.x, last'.y>>].revealed)
              => (tiles' = tiles /\ \A q \in PlayerIds : SameCredit(q))
        /\ (Handles({"flip"}) /\ InWorld(last'.x, last'.y)
                /\ ~tiles[<<last'.x, last'.y>>].revealed)
              => \A q \in PlayerIds \ {last'.playerId} : SameCredit(q)]_vars

\* both players stand next to the flag token; the first has flipped it and
\* was credited, the second has flipped it after that
C37_Witness ==
    /\ last.op = "action"
    /\ last.action = "flip"
    /\ last.playerId = 2
    /\ InWorld(last.x, last.y)
    /\ tiles[<<last.x, last.y>>].revealed
    /\ tiles[<<last.x, last.y>>].type = "flag_token"
    /\ players[1].score = 2
    /\ players[1].flags = DefaultFlags + 1
    /\ players[2].score = 0
    /\ players[2].flags = DefaultFlags
    /\ isAdjacent(players[2].x, players[2].y, last.x, last.y)

(***************************************************************************)
(* Connections and the players they control.                               *)
(***************************************************************************)
\* the connections the server finds a session of the player for
controllers(q) == {playerSessions[i].clientId : i \in entriesOf(q)}

\* the server holds no session for the connection
Unbound(c) == \A i \in 1 .. Len(playerSessions) : playerSessions[i].clientId # c

\* C38: at any time at most one connection controls a given player id: after
\* a player reconnects on a new connection, actions arriving on the old
\* connection are ignored, and a disconnect of the old connection handled
\* after the reconnect does not mark the player disconnected.
C38_OneConnectionPerPlayer ==
    /\ [](\A q \in PlayerIds : Cardinality(controllers(q)) <= 1)
    /\ [][
           /\ (steps' = steps + 1 /\ last'.op = "action" /\ Unbound(last'.client))
                 => (~last'.ok /\ last'.playerId = NoId /\ WorldUnchanged)
           /\ (steps' = steps + 1 /\ last'.op = "action" /\ last'.playerId # NoId)
                 => controllers(last'.playerId) = {last'.client}
           /\ (steps' = steps + 1 /\ last'.op = "disconnect" /\ Unbound(last'.client))
                 => players' = players]_vars

\* the player a client had created was taken over by the other client, and
\* the disconnect of the first client was handled after that: the player is
\* connected
C38_Witness ==
    /\ last.op = "disconnect"
    /\ Unbound(last.client)
    /\ \E q \in PlayerIds :
          /\ players[q].exists
          /\ players[q].clientId = last.client
          /\ players[q].connected
          /\ controllers(q) # {}
          /\ last.client \notin controllers(q)

\* an action has arrived on the connection a player was taken over from
OldConnectionActs ==
    /\ last.op = "action"
    /\ Unbound(last.client)
    /\ ~last.ok
    /\ \E q \in PlayerIds :
          /\ players[q].exists
          /\ players[q].clientId = last.client
          /\ controllers(q) # {}

\* the session entries and the player records that name a connection
entriesFor(c) == {i \in 1 .. Len(playerSessions) : playerSessions[i].clientId = c}
playersFor(c) == {q \in PlayerIds : players[q].exists /\ players[q].clientId = c}

\* C39: at any time each connection is associated with at most one player: a
\* connection that sends player-preferences more than once without valid
\* session credentials does not end up with more than one player record or
\* session entry.
C39_OnePlayerPerConnection ==
    \A c \in Clients :
        /\ Cardinality(entriesFor(c)) <= 1
        /\ Cardinality(playersFor(c)) <= 1
        /\ Cardinality({playerSessions[i].playerId : i \in entriesFor(c)}) <= 1

\* a player has one session entry at most, and the connection acts as the
\* player of the first entry that names it
OneEntryPerPlayer ==
    /\ \A q \in PlayerIds : Cardinality(entriesOf(q)) <= 1
    /\ (last.op = "action" /\ last.playerId # NoId)
          => \E i \in entriesFor(last.client) :
                /\ playerSessions[i].playerId = last.playerId
                /\ \A j \in entriesFor(last.client) : i <= j

(***************************************************************************)
(* Explosion chains with timers: the game handlers of                      *)
(* src/mineland_server/src/index.ts, where handleExplosion schedules       *)
(* itself with setTimeout for every mine it uncovers.  The timers all have *)
(* the same delay, so they run in the order they were scheduled, and any   *)
(* number of player actions is handled between two of them.                *)
(***************************************************************************)
MaxTimerSteps == 5
StartingFlags == 3
TimerSpawns == {<<0, 0>>, <<0, 3>>}
TimerLayouts == {{<<1, 0>>, <<3, 0>>, <<3, 3>>}, {<<1, 0>>, <<1, 2>>, <<3, 3>>}}
TimerKinds == {"flip", "flag", "move"}
TimerOffsets == {<<1, 0>>, <<1, -1>>}

label(client) == IF client = "c1" THEN 1 ELSE 2

\* generateWorld of index.ts: mines anywhere but on a spawn point, numbers on
\* every other tile with a mine next to it, spawn points revealed
generateWorldWithSpawns(spawnPoints, mines) ==
    [p \in Pos |->
        IF p \in mines /\ p \notin spawnPoints
        THEN createTileComponent("mine", FALSE, 0)
        ELSE IF countAdjacentMines(mines, p[1], p[2]) > 0
             THEN createTileComponent("numbered", p \in spawnPoints,
                                      countAdjacentMines(mines, p[1], p[2]))
        ELSE createTileComponent("empty", p \in spawnPoints, 0)]

InitTimers ==
    \E mines \in TimerLayouts :
        InitState(ServerConfig, generateWorldWithSpawns(TimerSpawns, mines))

minesRemaining == Cardinality(CHOOSE mines \in TimerLayouts : TRUE) - flaggedMines
gameEnded == gameEnds > 0

isTileWalkableWithTimers(tileMap, x, y) ==
    /\ isValidPosition(x, y)
    /\ (tileMap[<<x, y>>].revealed \/ tileMap[<<x, y>>].flagged)

\* the nested loops of handleExplosion visit the tiles by x, then by y
RECURSIVE inLoopOrder(_)
inLoopOrder(S) ==
    IF S = {} THEN <<>>
    ELSE LET first == CHOOSE p \in S : \A q \in S :
                          p[1] < q[1] \/ (p[1] = q[1] /\ p[2] <= q[2])
         IN  <<first>> \o inLoopOrder(S \ {first})

blastArea(x, y) ==
    {p \in Pos : SqDist(x, y, p[1], p[2]) <= DocumentedRadius * DocumentedRadius}

\* variant of chainReactions that leaves out the test of tile.revealed
chainReactionsOfRevealed(tileMap, x, y) ==
    {p \in blastArea(x, y) : tileMap[p].type = "mine" /\ ~tileMap[p].exploded}

\* the tiles handleExplosion(x, y) calls setTimeout for
chainReactions(tileMap, x, y) ==
    {p \in blastArea(x, y) :
        ~tileMap[p].revealed /\ tileMap[p].type = "mine" /\ ~tileMap[p].exploded}

\* handleExplosion of index.ts on w = [tiles, players, timers, explosions]
handleExplosionWithTimers(w, x, y, cause) ==
    LET chained == chainReactions(w.tiles, x, y)
        shown == [p \in Pos |->
            IF p \in blastArea(x, y) /\ ~w.tiles[p].revealed
            THEN [w.tiles[p] EXCEPT !.revealed = TRUE,
                                    !.exploded = IF p \in chained THEN TRUE ELSE @]
            ELSE IF p \in chained THEN [w.tiles[p] EXCEPT !.exploded = TRUE]
            ELSE w.tiles[p]]
        killed == [q \in PlayerIds |->
            IF /\ w.players[q].exists
               /\ w.players[q].alive
               /\ <<w.players[q].x, w.players[q].y>> \in blastArea(x, y)
            THEN [w.players[q] EXCEPT !.alive = FALSE]
            ELSE w.players[q]]
    IN  [tiles |-> [shown EXCEPT ![<<x, y>>].type = "explosion",
                                 ![<<x, y>>].exploded = TRUE],
         players |-> killed,
         flaggedMines |-> w.flaggedMines,
         timers |-> w.timers \o inLoopOrder(chained),
         explosions |-> Append(w.explosions, [site |-> <<x, y>>, cause |-> cause]),
         ok |-> TRUE]

\* handleTileFlip of index.ts
handleTileFlipWithTimers(w, playerId, x, y) ==
    LET player == w.players[playerId]
        tile == w.tiles[<<x, y>>]
        shown == [w EXCEPT !.tiles[<<x, y>>].revealed = TRUE,
                           !.players[playerId].score = @ + 1,
                           !.ok = TRUE]
    IN  IF ~player.exists \/ ~player.alive \/ gameEnded THEN w
        ELSE IF ~isValidPosition(x, y) \/ ~isAdjacent(player.x, player.y, x, y) THEN w
        ELSE IF tile.revealed \/ tile.flagged THEN w
        ELSE IF tile.type = "mine" THEN handleExplosionWithTimers(shown, x, y, "flip")
        ELSE shown

\* handleTileFlag of index.ts
handleTileFlagWithTimers(w, playerId, x, y) ==
    LET player == w.players[playerId]
        tile == w.tiles[<<x, y>>]
        placed == [w EXCEPT !.tiles[<<x, y>>].flagged = TRUE,
                            !.tiles[<<x, y>>].flaggedBy = playerId,
                            !.players[playerId].flags = @ - 1,
                            !.ok = TRUE]
    IN  IF ~player.exists \/ ~player.alive \/ gameEnded \/ player.flags <= 0 THEN w
        ELSE IF ~isValidPosition(x, y) \/ ~isAdjacent(player.x, player.y, x, y) THEN w
        ELSE IF tile.revealed \/ tile.flagged THEN w
        ELSE IF tile.type = "mine"
             THEN [placed EXCEPT !.players[playerId].score = @ + 3,
                                 !.flaggedMines = @ + 1]
        ELSE placed

\* the case 'move' of the player-action handler of index.ts
moveWithTimers(w, playerId, x, y) ==
    IF /\ isAdjacent(w.players[playerId].x, w.players[playerId].y, x, y)
       /\ isTileWalkableWithTimers(w.tiles, x, y)
    THEN [w EXCEPT !.players[playerId].x = x, !.players[playerId].y = y, !.ok = TRUE]
    ELSE w

world ==
    [tiles |-> tiles, players |-> players, flaggedMines |-> flaggedMines,
     timers |-> timers, explosions |-> explosions, ok |-> FALSE]

TimerUnchanged ==
    UNCHANGED <<securityVars, connectionVars, now, admitted, viewport, config,
                actionHistory, playerDataCache, outbox>>

\* the player-preferences handler of index.ts for a client without a player
TimerJoin ==
    /\ Step(MaxTimerSteps)
    /\ \E c \in Clients, sp \in TimerSpawns :
        /\ ~players[label(c)].exists
        /\ players' = [players EXCEPT ![label(c)] =
                [createPlayerComponent(sp, c) EXCEPT !.flags = StartingFlags]]
        /\ last' = Request("join", c, label(c), "none", sp[1], sp[2], sp[1], sp[2],
                           NoId, NoToken, TRUE)
        /\ broadcasts' = {"player-joined", "leaderboard-update"}
        /\ UNCHANGED <<tiles, flaggedMines, gameEnds, timers, explosions>>
        /\ TimerUnchanged

\* the player-action handler of index.ts
TimerAction ==
    /\ Step(MaxTimerSteps)
    /\ \E c \in Clients, a \in TimerKinds, o \in TimerOffsets :
        LET player == players[label(c)]
            x == player.x + o[1]
            y == player.y + o[2]
            w == IF ~player.exists \/ ~player.alive \/ gameEnded THEN world
                 ELSE IF a = "move" THEN moveWithTimers(world, label(c), x, y)
                 ELSE IF a = "flip" THEN handleTileFlipWithTimers(world, label(c), x, y)
                 ELSE handleTileFlagWithTimers(world, label(c), x, y)
            ends == w.ok /\ minesRemaining' <= 0 /\ ~gameEnded
        IN  /\ player.exists
            /\ isValidPosition(x, y)
            /\ tiles' = w.tiles
            /\ players' = w.players
            /\ flaggedMines' = w.flaggedMines
            /\ timers' = w.timers
            /\ explosions' = w.explosions
            /\ gameEnds' = IF ends THEN gameEnds + 1 ELSE gameEnds
            /\ broadcasts' =
                 (IF Len(w.explosions) > Len(explosions) THEN {"explosion"} ELSE {})
                    \cup (IF w.ok THEN {"player-update", "leaderboard-update"} ELSE {})
                    \cup (IF ends THEN {"game-end"} ELSE {})
            /\ last' = [Request("action", c, label(c), a, x, y, player.x, player.y,
                                NoId, NoToken, w.ok)
                            EXCEPT !.alive = player.alive]
            /\ TimerUnchanged

\* the callback of the timer scheduled first runs
TimerFires ==
    /\ timers # <<>>
    /\ LET site == Head(timers)
           w == handleExplosionWithTimers([world EXCEPT !.timers = Tail(timers)],
                                          site[1], site[2], "timer")
       IN  /\ tiles' = w.tiles
           /\ players' = w.players
           /\ timers' = w.timers
           /\ explosions' = w.explosions
           /\ broadcasts' = {"explosion"}
           /\ last' = Request("timer", "none", NoId, "none", site[1], site[2], 0, 0,
                              NoId, NoToken, TRUE)
           /\ UNCHANGED <<flaggedMines, gameEnds, steps>>
           /\ TimerUnchanged

NextTimers == TimerJoin \/ TimerAction \/ TimerFires

SpecTimers == InitTimers /\ [][NextTimers]_vars /\ WF_vars(TimerFires)

explodedAt(p) == {i \in 1 .. Len(explosions) : explosions[i].site = p}
scheduledFor(p) ==
    Cardinality({i \in 1 .. Len(timers) : timers[i] = p})
        + Cardinality({i \in explodedAt(p) : explosions[i].cause = "timer"})
minesLaid == {p \in Pos : tiles[p].type = "mine" \/ explodedAt(p) # {}}

\* C40: a chain of explosions terminates.  Every mine is scheduled to explode
\* at most once and explodes at most once, so there are never more explosion
\* events than mines, and with player actions handled between the timers the
\* timers still run out again and again.
C40_ChainTerminates ==
    /\ [](\A p \in Pos :
            /\ scheduledFor(p) <= 1
            /\ Cardinality(explodedAt(p)) <= 1
            /\ (scheduledFor(p) > 0 \/ explodedAt(p) # {}) => p \in minesLaid)
    /\ [](Len(explosions) <= Cardinality(minesLaid))
    /\ []<>(timers = <<>>)

\* a flip has set off a chain, the second mine has exploded on its timer and
\* has scheduled a third, and while that timer is pending a player who was
\* out of reach of both explosions has acted and been answered
C40_Witness ==
    /\ Len(explosions) = 2
    /\ explosions[1].cause = "flip"
    /\ explosions[2].cause = "timer"
    /\ timers # <<>>
    /\ last.op = "action"
    /\ last.ok

\* a chain runs through all three mines, each scheduled by the one before
ChainThroughAllMines ==
    /\ Len(explosions) = 3
    /\ explosions[1].cause = "flip"
    /\ explosions[2].cause = "timer"
    /\ explosions[3].cause = "timer"
    /\ timers = <<>>

====
